---- MODULE Spec2Model ----
(***************************************************************************)
(* A model of subgraph-mock: the schema loader and federation patcher, the *)
(* selection-driven response synthesizer, the latency wave shapes and the  *)
(* request pipeline with its caches and the schema hot-reload watcher.     *)
(*                                                                         *)
(* Random draws are nondeterministic choices: an operator that models a    *)
(* function using the random source returns the SET of its outcomes.       *)
(***************************************************************************)
EXTENDS Integers, Sequences, FiniteSets, TLC

(***************************************************************************)
(* Results: Rust's Result<T, E>, plus a panic (unwinding) outcome.         *)
(***************************************************************************)
Ok(x) == [ok |-> "ok", v |-> x]
Err(m) == [ok |-> "err", msg |-> m]
Panic(m) == [ok |-> "panic", why |-> m]
IsOk(r) == r.ok = "ok"

(***************************************************************************)
(* GraphQL schema documents.  A schema text is held as the sequence of its *)
(* definitions (and whether it is syntactically well formed); a type       *)
(* reference keeps its inner named type, its list-ness and the nullability *)
(* of its outermost wrapper.                                               *)
(***************************************************************************)
Named(n) == [name |-> n, list |-> FALSE, non_null |-> FALSE]
NonNullNamed(n) == [name |-> n, list |-> FALSE, non_null |-> TRUE]
ListOf(n) == [name |-> n, list |-> TRUE, non_null |-> FALSE]
NonNullList(n) == [name |-> n, list |-> TRUE, non_null |-> TRUE]

FieldDefinition(n, t) == [name |-> n, ty |-> t]
Directive(n, r) == [name |-> n, resolvable |-> r]

Def(k, n, fs, ms, ds) ==
  [kind |-> k, name |-> n, fields |-> fs, members |-> ms, directives |-> ds]
ObjectType(n, fs, ds) == Def("object", n, fs, <<>>, ds)
InterfaceType(n, fs, ds) == Def("interface", n, fs, <<>>, ds)
UnionType(n, ms) == Def("union", n, <<>>, ms, <<>>)
EnumType(n, vs) == Def("enum", n, <<>>, vs, <<>>)
ScalarType(n) == Def("scalar", n, <<>>, <<>>, <<>>)
DirectiveDefinition(n) == Def("directive", n, <<>>, <<>>, <<>>)
\* schema { query: q } and extend schema @d...; members holds the query root
SchemaDefinition(q, ds) == Def("schema", "", <<>>, <<q>>, ds)
SchemaExtension(ds) == Def("schema_extension", "", <<>>, <<>>, ds)

Text(defs) == [syntax_ok |-> TRUE, defs |-> defs]
Garbled == [syntax_ok |-> FALSE, defs |-> <<>>]

Range(s) == {s[i] : i \in DOMAIN s}

RECURSIVE SeqFilter(_, _)
SeqFilter(s, keep) ==
  IF s = <<>> THEN <<>>
  ELSE (IF Head(s) \in keep THEN <<Head(s)>> ELSE <<>>) \o SeqFilter(Tail(s), keep)

BuiltInScalarNames == <<"Int", "Float", "String", "Boolean", "ID">>
BuiltInScalars == Range(BuiltInScalarNames)
BuiltInDirectives == {"skip", "include", "deprecated", "specifiedBy"}
TypeKinds == {"object", "interface", "union", "enum", "scalar"}

(***************************************************************************)
(* The schema files the model loads or hot-reloads.                        *)
(***************************************************************************)
UserFields ==
  << FieldDefinition("id", NonNullNamed("ID")),
     FieldDefinition("name", Named("String")),
     FieldDefinition("isActive", NonNullNamed("Boolean")),
     FieldDefinition("role", Named("Role")),
     FieldDefinition("born", Named("Date")),
     FieldDefinition("views", Named("Int")),
     FieldDefinition("content", NonNullList("Content")),
     FieldDefinition("tags", ListOf("String")) >>

PostFields ==
  << FieldDefinition("title", Named("String")),
     FieldDefinition("views", NonNullNamed("Int")),
     FieldDefinition("author", Named("User")) >>

ArticleFields ==
  << FieldDefinition("title", Named("String")),
     FieldDefinition("author", Named("User")) >>

QueryFields ==
  << FieldDefinition("user", Named("User")),
     FieldDefinition("me", NonNullNamed("User")),
     FieldDefinition("posts", ListOf("Post")) >>

CommonTypes(userDirs) ==
  << ObjectType("User", UserFields, userDirs),
     ObjectType("Post", PostFields, <<>>),
     ObjectType("Article", ArticleFields, <<>>),
     UnionType("Content", <<"Post", "Article">>),
     EnumType("Role", <<"ADMIN", "GUEST">>),
     ScalarType("Date") >>

\* a plain GraphQL schema: no join__Graph, no @link
PlainSdl == Text(<<ObjectType("Query", QueryFields, <<>>)>> \o CommonTypes(<<>>))

\* the same schema after an edit that removes Query.posts
EditedSdl ==
  Text(<<ObjectType("Query", SubSeq(QueryFields, 1, 2), <<>>)>> \o CommonTypes(<<>>))

\* the plain schema with a mutation root and a subscription root
MutatingSdl ==
  Text(<<ObjectType("Query", QueryFields, <<>>),
         ObjectType("Mutation", <<FieldDefinition("rename", Named("User"))>>, <<>>),
         ObjectType("Subscription", <<FieldDefinition("renamed", Named("User"))>>, <<>>)>>
       \o CommonTypes(<<>>))

\* a federated subgraph: @link on the schema extension, an entity with @key
SubgraphSdl ==
  Text(<<SchemaExtension(<<Directive("link", "absent")>>),
         ObjectType("Query", QueryFields, <<>>)>>
       \o CommonTypes(<<Directive("key", "true")>>))

\* a composed supergraph: the join__Graph enum and @join__type
SupergraphSdl ==
  Text(<<SchemaDefinition("Query", <<Directive("link", "absent")>>),
         DirectiveDefinition("link"),
         DirectiveDefinition("join__type"),
         EnumType("join__Graph", <<"USERS">>),
         ObjectType("Query", QueryFields, <<>>)>>
       \o CommonTypes(<<Directive("join__type", "true")>>))

\* a field of an undefined type: parses, fails validation
DanglingSdl ==
  Text(<<ObjectType("Query", <<FieldDefinition("user", Named("Ghost"))>>, <<>>)>>)

\* no query root and not a subgraph: patch_schema fails
RootlessSdl == Text(CommonTypes(<<>>))

\* a subgraph that defines no Query type
RootlessSubgraphSdl ==
  Text(<<SchemaExtension(<<Directive("link", "absent")>>)>>
       \o CommonTypes(<<Directive("key", "true")>>))

\* a supergraph that defines no Query type and no schema definition
RootlessSupergraphSdl ==
  Text(<<DirectiveDefinition("join__type"), EnumType("join__Graph", <<"USERS">>)>>
       \o CommonTypes(<<Directive("join__type", "true")>>))

\* schema { query: Root } with no type Root defined
UnrootedSdl == Text(<<SchemaDefinition("Root", <<>>)>> \o CommonTypes(<<>>))

\* a subgraph whose @link is on its second schema extension
LateLinkSdl ==
  Text(<<SchemaExtension(<<Directive("tag", "absent")>>),
         SchemaExtension(<<Directive("link", "absent")>>),
         ObjectType("Query", QueryFields, <<>>)>>
       \o CommonTypes(<<Directive("key", "true")>>))

\* a subgraph whose types carry @key in every way: without resolvable, with
\* resolvable: false alone, with both values, on an interface, on the query root
EntitiesSdl ==
  Text(<<SchemaExtension(<<Directive("link", "absent")>>),
         ObjectType("Query", QueryFields, <<Directive("key", "true")>>),
         ObjectType("User", UserFields, <<Directive("key", "absent")>>),
         ObjectType("Post", PostFields, <<Directive("key", "false")>>),
         ObjectType("Article", ArticleFields,
                    <<Directive("key", "false"), Directive("key", "true")>>),
         InterfaceType("Node", <<FieldDefinition("id", NonNullNamed("ID"))>>,
                       <<Directive("key", "true")>>),
         UnionType("Content", <<"Post", "Article">>),
         EnumType("Role", <<"ADMIN", "GUEST">>),
         ScalarType("Date")>>)

\* a subgraph without a single @key
EntitylessSdl ==
  Text(<<SchemaExtension(<<Directive("link", "absent")>>),
         ObjectType("Query", QueryFields, <<>>)>>
       \o CommonTypes(<<>>))

\* a plain schema that defines @key itself and keys a type with it
KeyedPlainSdl ==
  Text(<<DirectiveDefinition("key"), ObjectType("Query", QueryFields, <<>>)>>
       \o CommonTypes(<<Directive("key", "true")>>))

\* the same, defining the scalar _Any as well
KeyedPlainAnySdl == Text(KeyedPlainSdl.defs \o <<ScalarType("_Any")>>)

\* what fs::read_to_string finds at the schema path; "missing" is an I/O error
SchemaFiles ==
  [plain |-> PlainSdl, edited |-> EditedSdl, mutating |-> MutatingSdl,
   subgraph |-> SubgraphSdl,
   supergraph |-> SupergraphSdl, dangling |-> DanglingSdl,
   rootless |-> RootlessSdl, rootless_subgraph |-> RootlessSubgraphSdl,
   rootless_supergraph |-> RootlessSupergraphSdl, unrooted |-> UnrootedSdl,
   late_link |-> LateLinkSdl, entities |-> EntitiesSdl, entityless |-> EntitylessSdl,
   keyed_plain |-> KeyedPlainSdl, keyed_plain_any |-> KeyedPlainAnySdl,
   garbled |-> Garbled]
FileStates == DOMAIN SchemaFiles \cup {"missing"}

(***************************************************************************)
(* Schema loading: Document::parse, patch_ast, to_schema, patch_schema and *)
(* validate.  A Schema keeps its types and directive definitions in        *)
(* insertion order (they are IndexMaps in the code).                       *)
(***************************************************************************)
HasName(defs, n) == \E i \in DOMAIN defs : defs[i].name = n
IndexOfName(defs, n) == CHOOSE i \in DOMAIN defs : defs[i].name = n
GetByName(defs, n) == defs[IndexOfName(defs, n)]

\* IndexMap::insert: replace in place when the key exists, else append
IndexMapInsert(defs, d) ==
  IF HasName(defs, d.name)
  THEN [defs EXCEPT ![IndexOfName(defs, d.name)] = d]
  ELSE Append(defs, d)

DefsOfKind(defs, kinds) == SeqFilter(defs, {d \in Range(defs) : d.kind \in kinds})

\* the directives of a run of definitions, in order
RECURSIVE DirectivesOf(_)
DirectivesOf(defs) ==
  IF defs = <<>> THEN <<>> ELSE Head(defs).directives \o DirectivesOf(Tail(defs))

FederationDirectiveNames ==
  << "external", "requires", "provides", "key", "link", "shareable",
     "inaccessible", "tag", "override", "composeDirective", "interfaceObject",
     "authenticated", "requiresScopes", "policy", "context", "fromContext" >>

federation_directives ==
  [i \in DOMAIN FederationDirectiveNames |->
     DirectiveDefinition(FederationDirectiveNames[i])]

\* the flavour patch_ast infers
FederationTypeOf(defs) ==
  IF \E i \in DOMAIN defs : defs[i].kind # "schema" /\ defs[i].kind # "schema_extension"
                            /\ defs[i].name = "join__Graph"
  THEN "Supergraph"
  ELSE IF /\ DefsOfKind(defs, {"schema_extension"}) # <<>>
          /\ \E j \in DOMAIN DefsOfKind(defs, {"schema_extension"})[1].directives :
                DefsOfKind(defs, {"schema_extension"})[1].directives[j].name = "link"
  THEN "Subgraph"
  ELSE "None"

patch_ast(defs) ==
  LET fed_type == FederationTypeOf(defs)
      with_schema ==
        IF DefsOfKind(defs, {"schema"}) = <<>>
        THEN Append(defs, SchemaDefinition("Query", <<>>))
        ELSE defs
  IN  [fed_type |-> fed_type,
       ast |-> IF fed_type = "Subgraph"
               THEN with_schema \o federation_directives
               ELSE defs]

\* Document::to_schema: the schema built from the (patched) AST.  A schema
\* definition names its root operations (the modelled ones name the query
\* root alone); without one, the object types called Query, Mutation and
\* Subscription are the roots
to_schema(defs) ==
  LET schema_defs == DefsOfKind(defs, {"schema"})
      schema_exts == DefsOfKind(defs, {"schema_extension"})
      types == DefsOfKind(defs, TypeKinds)
      implicit(n) == IF HasName(types, n) /\ GetByName(types, n).kind = "object"
                     THEN n ELSE ""
      query == IF schema_defs # <<>> THEN schema_defs[1].members[1]
               ELSE implicit("Query")
  IN  IF \E i, j \in DOMAIN types : i # j /\ types[i].name = types[j].name
      THEN Err("duplicate definition")
      ELSE Ok([query |-> query,
               mutation |-> IF schema_defs # <<>> THEN "" ELSE implicit("Mutation"),
               subscription |->
                 IF schema_defs # <<>> THEN "" ELSE implicit("Subscription"),
               explicit_schema |-> schema_defs # <<>>,
               schema_directives |->
                 (IF schema_defs # <<>> THEN schema_defs[1].directives ELSE <<>>)
                 \o DirectivesOf(schema_exts),
               directive_definitions |-> DefsOfKind(defs, {"directive"}),
               types |-> types])

\* every @key and @join__type counted, whatever its resolvable argument
is_federated_directive_any(schema, directive) ==
  IF directive.name \in {"key", "join__type"}
  THEN IF directive.resolvable = "absent"
       THEN IF HasName(schema.directive_definitions, directive.name)
            THEN Ok(TRUE) ELSE Panic("resolvable")
       ELSE Ok(TRUE)
  ELSE Ok(FALSE)

\* resolvable defaults to true through the directive's definition; without a
\* definition in scope the lookup fails and the expect() panics
is_federated_directive(schema, directive) ==
  IF directive.name \in {"key", "join__type"}
  THEN IF directive.resolvable = "absent"
       THEN IF HasName(schema.directive_definitions, directive.name)
            THEN Ok(TRUE) ELSE Panic("resolvable")
       ELSE Ok(directive.resolvable = "true")
  ELSE Ok(FALSE)

is_federated_type(schema, ty) ==
  \E i \in DOMAIN ty.directives :
     /\ is_federated_directive(schema, ty.directives[i]) = Ok(TRUE)
     /\ (schema.query = "" \/ schema.query # ty.name)

FederatedTypePanics(schema) ==
  \E i \in DOMAIN schema.types : \E j \in DOMAIN schema.types[i].directives :
     /\ schema.types[i].kind = "object"
     /\ is_federated_directive(schema, schema.types[i].directives[j]).ok = "panic"

ServiceType ==
  ObjectType("_Service", <<FieldDefinition("sdl", NonNullNamed("String"))>>, <<>>)

RECURSIVE InsertAll(_, _)
InsertAll(types, defs) ==
  IF defs = <<>> THEN types
  ELSE InsertAll(IndexMapInsert(types, Head(defs)), Tail(defs))

\* insert_federation_types leaving _Any out
insert_federation_types_without_any(types, federation_type) ==
  InsertAll(types,
    <<ServiceType>>
    \o (IF federation_type = "Subgraph"
        THEN << EnumType("link__Purpose", <<"SECURITY", "EXECUTION">>),
                ScalarType("FieldSet"), ScalarType("link__Import"),
                ScalarType("federation__ContextFieldValue"),
                ScalarType("federation__Scope"), ScalarType("federation__Policy") >>
        ELSE <<>>))

insert_federation_types(types, federation_type) ==
  InsertAll(types,
    <<ServiceType>>
    \o (IF federation_type \in {"Subgraph", "Supergraph"}
        THEN <<ScalarType("_Any")>> ELSE <<>>)
    \o (IF federation_type = "Subgraph"
        THEN << EnumType("link__Purpose", <<"SECURITY", "EXECUTION">>),
                ScalarType("FieldSet"), ScalarType("link__Import"),
                ScalarType("federation__ContextFieldValue"),
                ScalarType("federation__Scope"), ScalarType("federation__Policy") >>
        ELSE <<>>))

EmptyObject(n) == ObjectType(n, <<>>, <<>>)

patch_schema(schema, federation_type) ==
  LET members == SeqFilter(
                   [i \in DOMAIN schema.types |-> schema.types[i].name],
                   {t.name : t \in {u \in Range(schema.types) :
                       u.kind = "object" /\ is_federated_type(schema, u)}})
      has_federated_members == members # <<>>
      t1 == IF has_federated_members
            THEN IndexMapInsert(schema.types, UnionType("_Entity", members))
            ELSE schema.types
      \* Subgraph: create the query root when it is missing
      q3 == IF federation_type = "Subgraph" /\ schema.query = "" THEN "Query"
            ELSE schema.query
      WithQuery(t2) == IF federation_type = "Subgraph" /\ schema.query = ""
                       THEN IndexMapInsert(t2, EmptyObject("Query")) ELSE t2
      WithRoot(t3) == IF federation_type = "Subgraph" /\ ~HasName(t3, q3)
                      THEN IndexMapInsert(t3, EmptyObject(q3)) ELSE t3
      f1(root) == IF has_federated_members
                  THEN IndexMapInsert(root.fields,
                         FieldDefinition("_entities", NonNullList("_Entity")))
                  ELSE root.fields
      f2(root) == IndexMapInsert(f1(root),
                    FieldDefinition("_service", NonNullNamed("_Service")))
      dirs == IF federation_type = "Supergraph"
              THEN InsertAll(schema.directive_definitions,
                     SeqFilter(<<DirectiveDefinition("defer"), DirectiveDefinition("stream")>>,
                               {d \in {DirectiveDefinition("defer"), DirectiveDefinition("stream")} :
                                  ~HasName(schema.directive_definitions, d.name)}))
              ELSE schema.directive_definitions
      Rooted(t4, root) ==
        IF root.kind # "object" THEN Err("query root is not an object")
        ELSE Ok([schema EXCEPT !.query = q3,
                   !.types = IndexMapInsert(t4, [root EXCEPT !.fields = f2(root)]),
                   !.directive_definitions = dirs])
      Patched(t4) ==
        IF ~HasName(t4, q3) THEN Panic("unwrap")
        ELSE Rooted(t4, GetByName(t4, q3))
  IN  IF FederatedTypePanics(schema) THEN Panic("resolvable")
      ELSE IF q3 = "" THEN Err("Schema does not define a query type")
      ELSE Patched(WithRoot(WithQuery(insert_federation_types(t1, federation_type))))

\* Schema::validate, as far as the modelled schemas can fail it
TypeDefined(schema, n) == n \in BuiltInScalars \/ HasName(schema.types, n)
DirectiveDefined(schema, n) ==
  n \in BuiltInDirectives \/ HasName(schema.directive_definitions, n)

validate(schema) ==
  /\ HasName(schema.types, schema.query)
  /\ GetByName(schema.types, schema.query).kind = "object"
  /\ \A i \in DOMAIN schema.schema_directives :
        DirectiveDefined(schema, schema.schema_directives[i].name)
  /\ \A i \in DOMAIN schema.types :
       LET t == schema.types[i] IN
       /\ \A j \in DOMAIN t.fields : TypeDefined(schema, t.fields[j].ty.name)
       \* the one modelled field with an argument: representations: [_Any!]!
       /\ \A j \in DOMAIN t.fields :
             t.fields[j].name = "_entities" => TypeDefined(schema, "_Any")
       /\ \A j \in DOMAIN t.directives : DirectiveDefined(schema, t.directives[j].name)
       /\ t.kind = "union" =>
            \A j \in DOMAIN t.members :
               /\ HasName(schema.types, t.members[j])
               /\ GetByName(schema.types, t.members[j]).kind = "object"
       /\ t.kind = "enum" => t.members # <<>>
       /\ t.kind \in {"object", "interface"} => t.fields # <<>>

\* Display for Schema: the schema definition when it is explicit, then the
\* directive definitions, then the types
to_string(schema) ==
  Text((IF schema.explicit_schema
        THEN <<SchemaDefinition(schema.query, schema.schema_directives)>> ELSE <<>>)
       \o schema.directive_definitions \o schema.types)

\* FederatedSchema::parse_string
parse_string(source) ==
  IF ~source.syntax_ok THEN Err("syntax error")
  ELSE LET patched == patch_ast(source.defs)
           Validated(fixed) ==
             IF ~IsOk(fixed) THEN fixed
             ELSE IF ~validate(fixed.v) THEN Err("validation error")
             ELSE Ok([valid |-> fixed.v, source |-> source])
           Patched(built) ==
             IF ~IsOk(built) THEN built
             ELSE Validated(patch_schema(built.v, patched.fed_type))
       IN  Patched(to_schema(patched.ast))

\* FederatedSchema::parse: read the file, then parse_string
parse(file) ==
  IF file = "missing" THEN Err("io error") ELSE parse_string(SchemaFiles[file])

\* FederatedSchema::sdl
sdl(federated) == federated.source

\* a function held as the table of its values, each computed once
Tabulated(f) == f @@ <<>>

\* A FederatedSchema is named by the file content it was parsed from; Loaded
\* gives what parsing that content yields.
Loaded == Tabulated([file \in FileStates |-> parse(file)])

LoadableFiles == {f : f \in {g \in FileStates : IsOk(Loaded[g])}}

(***************************************************************************)
(* Executable documents.  A query text is held as its syntax tree; binding *)
(* it to a schema (ExecutableDocument::parse_and_validate) resolves every  *)
(* field to its definition or fails.                                       *)
(***************************************************************************)
\* alias "" stands for no alias; an inline fragment keeps its type condition
\* in name ("" for none), a fragment spread the fragment's name
Field(alias, name, sels) ==
  [kind |-> "field", alias |-> alias, name |-> name, selections |-> sels]
InlineFragment(on, sels) ==
  [kind |-> "inline", alias |-> "", name |-> on, selections |-> sels]
FragmentSpread(name) ==
  [kind |-> "spread", alias |-> "", name |-> name, selections |-> <<>>]
Fragment(name, on, sels) == [name |-> name, on |-> on, selections |-> sels]

\* variables: the names the operation declares, each `String!` and handed to
\* the `name` argument of a root __type field
Document(op, sels, frags) ==
  [syntax_ok |-> TRUE, operation_type |-> op, selections |-> sels, fragments |-> frags,
   variables |-> {}]

\* the introspection types every schema carries
IntrospectionTypes ==
  << ObjectType("__Schema",
       <<FieldDefinition("queryType", NonNullNamed("__Type")),
         FieldDefinition("types", NonNullList("__Type"))>>, <<>>),
     ObjectType("__Type",
       <<FieldDefinition("name", Named("String")),
         FieldDefinition("kind", NonNullNamed("__TypeKind"))>>, <<>>),
     EnumType("__TypeKind", <<"SCALAR", "OBJECT", "UNION", "ENUM">>) >>

AllTypes(schema) ==
  schema.types \o IntrospectionTypes
  \o [i \in DOMAIN BuiltInScalarNames |-> ScalarType(BuiltInScalarNames[i])]

TypeOf(schema, n) == GetByName(AllTypes(schema), n)
KindOf(schema, n) == IF n \in BuiltInScalars THEN "scalar" ELSE TypeOf(schema, n).kind
IsComposite(schema, n) ==
  /\ n \notin BuiltInScalars
  /\ HasName(schema.types \o IntrospectionTypes, n)
  /\ KindOf(schema, n) \in {"object", "interface", "union"}

MetaFields(schema, parent) ==
  <<FieldDefinition("__typename", NonNullNamed("String"))>>
  \o (IF parent = schema.query
      THEN <<FieldDefinition("__schema", NonNullNamed("__Schema")),
             FieldDefinition("__type", Named("__Type"))>>
      ELSE <<>>)

FieldsOn(schema, parent) ==
  MetaFields(schema, parent)
  \o (IF KindOf(schema, parent) \in {"object", "interface"}
      THEN TypeOf(schema, parent).fields ELSE <<>>)

RECURSIVE SelectionsValid(_, _, _, _)
SelectionsValid(schema, frags, parent, sels) ==
  /\ sels # <<>>
  /\ \A i \in DOMAIN sels :
       LET s == sels[i] IN
       CASE s.kind = "field" ->
              /\ HasName(FieldsOn(schema, parent), s.name)
              /\ LET inner == GetByName(FieldsOn(schema, parent), s.name).ty.name IN
                 IF IsComposite(schema, inner)
                 THEN SelectionsValid(schema, frags, inner, s.selections)
                 ELSE s.selections = <<>>
         [] s.kind = "inline" ->
              /\ s.name # "" => IsComposite(schema, s.name)
              /\ SelectionsValid(schema, frags,
                                 IF s.name = "" THEN parent ELSE s.name, s.selections)
         [] OTHER -> HasName(frags, s.name)

RECURSIVE BindSelections(_, _, _)
BindSelections(schema, parent, sels) ==
  [i \in DOMAIN sels |->
     LET s == sels[i] IN
     CASE s.kind = "field" ->
            LET def == GetByName(FieldsOn(schema, parent), s.name) IN
            [kind |-> "field", alias |-> s.alias, name |-> s.name, ty |-> def.ty,
             selection_set |->
               [ty |-> def.ty.name,
                selections |-> BindSelections(schema, def.ty.name, s.selections)]]
       [] s.kind = "inline" ->
            LET on == IF s.name = "" THEN parent ELSE s.name IN
            [kind |-> "inline", alias |-> "", name |-> s.name, ty |-> Named(on),
             selection_set |->
               [ty |-> on, selections |-> BindSelections(schema, on, s.selections)]]
       [] OTHER ->
            [kind |-> "spread", alias |-> "", name |-> s.name, ty |-> Named(""),
             selection_set |-> [ty |-> "", selections |-> <<>>]]]

\* the root type of an operation type, "" when the schema has none
RootOf(schema, operation_type) ==
  CASE operation_type = "query" -> schema.query
    [] operation_type = "mutation" -> schema.mutation
    [] OTHER -> schema.subscription

\* ExecutableDocument::parse_and_validate(schema, query, path)
ExecutableDocument_parse_and_validate(schema, doc) ==
  IF /\ doc.syntax_ok
     /\ RootOf(schema, doc.operation_type) # ""
     /\ SelectionsValid(schema, doc.fragments, RootOf(schema, doc.operation_type),
                        doc.selections)
     /\ \A i \in DOMAIN doc.fragments :
           /\ IsComposite(schema, doc.fragments[i].on)
           /\ SelectionsValid(schema, doc.fragments, doc.fragments[i].on,
                              doc.fragments[i].selections)
  THEN Ok([operation_type |-> doc.operation_type,
           variables |-> doc.variables,
           selection_set |->
             [ty |-> RootOf(schema, doc.operation_type),
              selections |-> BindSelections(schema, RootOf(schema, doc.operation_type),
                                            doc.selections)],
           fragments |->
             [i \in DOMAIN doc.fragments |->
                [name |-> doc.fragments[i].name,
                 selection_set |->
                   [ty |-> doc.fragments[i].on,
                    selections |-> BindSelections(schema, doc.fragments[i].on,
                                                  doc.fragments[i].selections)]]]])
  ELSE Err("invalid query")

(***************************************************************************)
(* JSON values.  A generated string is held as its sequence of characters, *)
(* a name (type name, enum value) as the name itself.                      *)
(***************************************************************************)
JNull == [k |-> "null"]
JBool(b) == [k |-> "bool", b |-> b]
JNumber(n) == [k |-> "number", n |-> n]
JFloat(n) == [k |-> "number", f |-> n]
JString(s) == [k |-> "string", s |-> s]
JChars(cs) == [k |-> "string", chars |-> cs]
JArray(xs) == [k |-> "array", xs |-> xs]
JObject(m) == [k |-> "object", m |-> m]
JText(t) == [k |-> "string", text |-> t]
EmptyMap == [key \in {} |-> JNull]

Keys(obj) == DOMAIN obj.m

(***************************************************************************)
(* ResponseGenerationConfig and the generators.                            *)
(***************************************************************************)
None == <<>>
Some(n, d) == <<n, d>>

Bool == [type |-> "bool", min |-> 0, max |-> 0]
IntGen(min, max) == [type |-> "int", min |-> min, max |-> max]
FloatGen(min, max) == [type |-> "float", min |-> min, max |-> max]
StringGen(min_len, max_len) == [type |-> "string", min |-> min_len, max |-> max_len]

DefaultIntMin == 0
DefaultIntMax == 100
DefaultStringMinLen == 1
DefaultStringMaxLen == 10
DefaultArrayMin == 0
DefaultArrayMax == 10

DEFAULT == StringGen(DefaultStringMinLen, DefaultStringMaxLen)

\* default_scalar_config with ID generated as text
default_scalar_config_text_id ==
  [Boolean |-> Bool,
   Int |-> IntGen(DefaultIntMin, DefaultIntMax),
   ID |-> StringGen(DefaultStringMinLen, DefaultStringMaxLen),
   Float |-> FloatGen(-1, 1),
   String |-> StringGen(DefaultStringMinLen, DefaultStringMaxLen)]

default_scalar_config ==
  [Boolean |-> Bool,
   Int |-> IntGen(DefaultIntMin, DefaultIntMax),
   ID |-> IntGen(DefaultIntMin, DefaultIntMax),
   Float |-> FloatGen(-1, 1),
   String |-> StringGen(DefaultStringMinLen, DefaultStringMaxLen)]

default_array_size == [min_length |-> DefaultArrayMin, max_length |-> DefaultArrayMax]
default_null_ratio == Some(1, 2)

GraphQLErrorConfig(req, fld) == [request_error_ratio |-> req, field_error_ratio |-> fld]

ResponseGenerationConfig_default ==
  [scalars |-> default_scalar_config,
   array |-> default_array_size,
   null_ratio |-> default_null_ratio,
   header_ratio |-> EmptyMap,
   http_error_ratio |-> None,
   graphql_errors |-> GraphQLErrorConfig(None, None)]

\* merge_default_scalars: the provided entries extend (and override) the defaults
merge_default_scalars(cfg) ==
  [cfg EXCEPT !.scalars = cfg.scalars @@ default_scalar_config]

\* Rng::random_ratio: the outcomes the draw can have; it panics when the
\* denominator is 0 or the numerator exceeds it
RatioPanics(r) == r[2] = 0 \/ r[1] > r[2]
random_ratio(r) ==
  IF RatioPanics(r) THEN {}
  ELSE (IF r[1] > 0 THEN {TRUE} ELSE {}) \cup (IF r[1] < r[2] THEN {FALSE} ELSE {})

\* the outcomes of an optional trial: absent means it never hits
Trial(opt) == IF opt = None THEN {FALSE} ELSE random_ratio(opt)
TrialPanics(opt) == opt # None /\ RatioPanics(opt)

\* the characters random::<char>() is sampled from, cut down to a sample
Alphabet == {"x"}

\* results of a generator: the values it can emit and the ways it can fail
Out(vals, fails) == [vals |-> vals, fails |-> fails]
EmptyRange == Panic("cannot sample empty range")

\* ScalarGenerator::generate drawing from half-open ranges that overshoot max
generate_past_max(self) ==
  CASE self.type = "bool" -> Out({JBool(TRUE), JBool(FALSE)}, {})
    [] self.type = "int" -> Out({JNumber(n) : n \in self.min..self.max + 1}, {})
    [] self.type = "float" -> Out({JFloat(n) : n \in self.min..self.max + 1}, {})
    [] OTHER ->
         Out(UNION {{JChars(cs) : cs \in [1..len -> Alphabet]} :
                      len \in self.min..self.max + 1}, {})

\* ScalarGenerator::generate
generate(self) ==
  CASE self.type = "bool" -> Out({JBool(TRUE), JBool(FALSE)}, {})
    [] self.type = "int" ->
         IF self.min > self.max THEN Out({}, {EmptyRange})
         ELSE Out({JNumber(n) : n \in self.min..self.max}, {})
    [] self.type = "float" ->
         IF self.min > self.max THEN Out({}, {EmptyRange})
         ELSE Out({JFloat(n) : n \in self.min..self.max}, {})
    [] OTHER ->
         IF self.min > self.max THEN Out({}, {EmptyRange})
         ELSE Out(UNION {{JChars(cs) : cs \in [1..len -> Alphabet]} :
                           len \in self.min..self.max}, {})

(***************************************************************************)
(* ResponseBuilder: the selection walk.  Each operator returns Out(vals,   *)
(* fails): every value the walk can emit and every way it can fail.        *)
(***************************************************************************)
ResponseKey(field) == IF field.alias = "" THEN field.name ELSE field.alias

\* collect_fields: the fields of a selection set in document order, fragment
\* spreads and inline fragments expanded; grouping by response key keeps
\* this order within each key
RECURSIVE CollectFrom(_, _)
CollectFrom(doc, sels) ==
  IF sels = <<>> THEN <<>>
  ELSE LET s == Head(sels)
           here == CASE s.kind = "field" -> <<s>>
                     [] s.kind = "spread" ->
                          IF HasName(doc.fragments, s.name)
                          THEN CollectFrom(doc,
                                 GetByName(doc.fragments, s.name).selection_set.selections)
                          ELSE <<>>
                     [] OTHER -> CollectFrom(doc, s.selection_set.selections)
       IN  here \o CollectFrom(doc, Tail(sels))

collect_fields(doc, selection_set) ==
  LET flat == CollectFrom(doc, selection_set.selections)
      keys == {ResponseKey(f) : f \in Range(flat)}
  IN  [key \in keys |-> SeqFilter(flat, {f \in Range(flat) : ResponseKey(f) = key})]

RECURSIVE ConcatSelections(_)
ConcatSelections(fields) ==
  IF fields = <<>> THEN <<>>
  ELSE Head(fields).selection_set.selections \o ConcatSelections(Tail(fields))

\* every map with the given keys whose value at each key is one of per[key]
RECURSIVE MapsOver(_, _)
MapsOver(keys, per) ==
  IF keys = {} THEN {EmptyMap}
  ELSE LET key == CHOOSE x \in keys : TRUE IN
       {(key :> val) @@ rest : val \in per[key], rest \in MapsOver(keys \ {key}, per)}

\* should_be_null falling back to the default ratio when none is configured
should_be_null_defaulting(cfg) ==
  Trial(IF cfg.null_ratio = None THEN default_null_ratio ELSE cfg.null_ratio)

\* should_be_null
should_be_null(cfg) == Trial(cfg.null_ratio)

\* arbitrary_array_len
arbitrary_array_len(cfg) ==
  IF cfg.array.min_length > cfg.array.max_length THEN Out({}, {EmptyRange})
  ELSE Out(cfg.array.min_length..cfg.array.max_length, {})

\* every array whose length arbitrary_array_len can draw, over the elements
ArraysOf(cfg, elems) ==
  LET lens == arbitrary_array_len(cfg) IN
  Out({JArray(xs) : xs \in UNION {[1..n -> elems.vals] : n \in lens.vals}},
      lens.fails \cup (IF \E n \in lens.vals : n > 0 THEN elems.fails ELSE {}))

leaf_field(ctx, type_name) ==
  LET Leaf(ty) ==
        CASE ty.kind = "enum" ->
               IF ty.members = <<>> THEN Out({}, {Err("empty enum")})
               ELSE Out({JString(ty.members[i]) : i \in DOMAIN ty.members}, {})
          [] ty.kind = "scalar" ->
               generate(IF ty.name \in DOMAIN ctx.cfg.scalars
                        THEN ctx.cfg.scalars[ty.name] ELSE DEFAULT)
          [] OTHER -> Out({}, {Panic("unreachable")})
  IN  Leaf(TypeOf(ctx.schema, type_name))

array_leaf_field(ctx, type_name) == ArraysOf(ctx.cfg, leaf_field(ctx, type_name))

\* the string emitted for __typename: the type of the selection set walked
TypenameOf(selection_set) == JString(selection_set.ty)

\* the object emitted for _service
ServiceObject(ctx) == JObject("sdl" :> JText(to_string(ctx.schema)))

RECURSIVE selection_set(_, _)
selection_set(ctx, set) ==
  LET grouped_fields == collect_fields(ctx.doc, set)
      Objects(nested) == Out({JObject(m) : m \in nested.vals}, nested.fails)
      \* a nullable field: null when should_be_null draws true
      Nullable(value) ==
        IF TrialPanics(ctx.cfg.null_ratio) THEN Out({}, {Panic("ratio")})
        ELSE Out((IF TRUE \in should_be_null(ctx.cfg) THEN {JNull} ELSE {})
                 \cup (IF FALSE \in should_be_null(ctx.cfg) THEN value.vals ELSE {}),
                 IF FALSE \in should_be_null(ctx.cfg) THEN value.fails ELSE {})
      Selected(fields, meta_field) ==
        LET is_selection_set == meta_field.selection_set.selections # <<>>
            is_array == meta_field.ty.list
            full_selection_set == [ty |-> meta_field.selection_set.ty,
                                   selections |-> ConcatSelections(fields)]
            Shaped(objects) ==
              IF is_array THEN ArraysOf(ctx.cfg, objects) ELSE objects
            Marked(value) ==
              IF meta_field.ty.non_null THEN value ELSE Nullable(value)
        IN  IF meta_field.name = "__typename" THEN Out({TypenameOf(set)}, {})
            ELSE IF meta_field.name = "_service" THEN Out({ServiceObject(ctx)}, {})
            ELSE Marked(IF is_selection_set
                        THEN Shaped(Objects(selection_set(ctx, full_selection_set)))
                        ELSE IF is_array
                             THEN array_leaf_field(ctx, meta_field.ty.name)
                             ELSE leaf_field(ctx, meta_field.ty.name))
      Emitted(per) ==
        Out(MapsOver(DOMAIN per, [key \in DOMAIN per |-> per[key].vals]),
            UNION {per[key].fails : key \in DOMAIN per})
  IN  Emitted([key \in DOMAIN grouped_fields |->
                 Selected(grouped_fields[key], grouped_fields[key][1])])

(***************************************************************************)
(* generate_response                                                       *)
(***************************************************************************)
RECURSIVE Orderings(_)
Orderings(S) ==
  IF S = {} THEN {<<>>}
  ELSE UNION {{<<x>> \o p : p \in Orderings(S \ {x})} : x \in S}

Restrict(m, keys) == [key \in keys |-> m[key]]

RequestErrorResponse ==
  JObject(("data" :> JNull)
          @@ ("errors" :> JArray(<<JObject("message" :> JString("Request error simulated"))>>)))

FieldError(key) ==
  JObject(("message" :> JString("Field error simulated"))
          @@ ("path" :> JArray(<<JString(key)>>)))

\* Operation::is_introspection: only __schema, __type and __typename at the root
is_introspection(doc) ==
  \A f \in Range(CollectFrom(doc, doc.selection_set.selections)) :
     f.name \in {"__schema", "__type", "__typename"}

\* the variables of a request are held as "none" for the empty map and
\* otherwise as the value given to `name`.  coerce_variable_values keeps the
\* variables the operation declares and fails when a required one is absent
coerce_variable_values(doc, variables) ==
  IF doc.variables = {} THEN Ok("none")
  ELSE IF variables = "none" THEN Err("missing variable")
  ELSE Ok(variables)

\* introspection::partial_execute: the real answer for the schema; a
\* __schema or __type answer is held as the schema facts and the coerced
\* variables it is computed from
partial_execute(schema, doc, variables) ==
  LET grouped == collect_fields(doc, doc.selection_set) IN
  JObject("data" :> JObject(
    [key \in DOMAIN grouped |->
       IF grouped[key][1].name = "__typename" THEN JString(schema.query)
       ELSE [k |-> "introspection",
             intro |-> [field |-> grouped[key][1].name,
                    queryType |-> schema.query,
                    types |-> [i \in DOMAIN schema.types |-> schema.types[i].name],
                    variables |-> variables]]]))

\* the field-error branch with drop_count drawn from 0..len
FieldErrorResponsesFromZero(data) ==
  {Ok(JObject(("data" :> JObject(Restrict(data, DOMAIN data \ to_drop)))
              @@ ("errors" :> JArray([i \in DOMAIN order |-> FieldError(order[i])])))) :
     <<to_drop, order>> \in
       UNION {{<<d, o>> : o \in Orderings(d)} : d \in SUBSET DOMAIN data}}

\* the field-error branch: drop_count in 1..len, that many distinct keys
\* dropped, one error per dropped key in the set's iteration order
FieldErrorResponses(data) ==
  IF DOMAIN data = {} THEN {EmptyRange}
  ELSE {Ok(JObject(("data" :> JObject(Restrict(data, DOMAIN data \ to_drop)))
                   @@ ("errors" :> JArray([i \in DOMAIN order |-> FieldError(order[i])])))) :
          <<to_drop, order>> \in
            UNION {{<<d, o>> : o \in Orderings(d)} : d \in (SUBSET DOMAIN data) \ {{}}}}

\* generate_response with the request-error trial made after the data is
\* built and its error added to whatever the field-error trial left
generate_response_stacking_errors(cfg, doc, schema, variables) ==
  LET ge == cfg.graphql_errors
      data == selection_set([schema |-> schema, doc |-> doc, cfg |-> cfg],
                            doc.selection_set)
      request_error == JObject("message" :> JString("Request error simulated"))
      Stacked(r) ==
        IF ~IsOk(r) THEN r
        ELSE Ok(JObject(("data" :> r.v.m["data"])
                        @@ ("errors" :>
                              JArray((IF "errors" \in DOMAIN r.v.m
                                      THEN r.v.m["errors"].xs ELSE <<>>)
                                     \o <<request_error>>))))
      FromFields(built) ==
        IF TRUE \in Trial(ge.request_error_ratio)
        THEN {Stacked(r) : r \in built} ELSE built
  IN  FromFields(
        (IF TRUE \in Trial(ge.field_error_ratio)
         THEN UNION {FieldErrorResponses(d) : d \in data.vals} ELSE {})
        \cup (IF FALSE \in Trial(ge.field_error_ratio)
              THEN {Ok(JObject("data" :> JObject(d))) : d \in data.vals} ELSE {}))

generate_response(cfg, doc, schema, variables) ==
  LET ge == cfg.graphql_errors
      FromData(data) ==
        data.fails
        \cup (IF data.vals # {} /\ TrialPanics(ge.field_error_ratio)
              THEN {Panic("ratio")} ELSE {})
        \cup (IF ~TrialPanics(ge.field_error_ratio) /\ TRUE \in Trial(ge.field_error_ratio)
              THEN UNION {FieldErrorResponses(d) : d \in data.vals} ELSE {})
        \cup (IF ~TrialPanics(ge.field_error_ratio) /\ FALSE \in Trial(ge.field_error_ratio)
              THEN {Ok(JObject("data" :> JObject(d))) : d \in data.vals} ELSE {})
      after_request_trial ==
        IF is_introspection(doc)
        THEN {IF IsOk(coerce_variable_values(doc, variables))
              THEN Ok(partial_execute(schema, doc, coerce_variable_values(doc, variables).v))
              ELSE coerce_variable_values(doc, variables)}
        ELSE FromData(selection_set([schema |-> schema, doc |-> doc, cfg |-> cfg],
                                    doc.selection_set))
  IN  IF TrialPanics(ge.request_error_ratio) THEN {Panic("ratio")}
      ELSE (IF TRUE \in Trial(ge.request_error_ratio)
            THEN {Ok(RequestErrorResponse)} ELSE {})
           \cup (IF FALSE \in Trial(ge.request_error_ratio)
                 THEN after_request_trial ELSE {})

(***************************************************************************)
(* The queries and the response-generation configs the model draws from.   *)
(***************************************************************************)
QueryTexts ==
  [scenario |->
     Document("query",
       <<Field("", "user", <<Field("", "id", <<>>), Field("", "name", <<>>),
                             Field("", "isActive", <<>>)>>)>>, <<>>),
   union |->
     Document("query",
       <<Field("", "me",
          <<Field("", "content",
             <<Field("", "__typename", <<>>),
               InlineFragment("Post",
                 <<Field("", "title", <<>>),
                   Field("", "author", <<Field("", "name", <<>>)>>)>>),
               InlineFragment("Article",
                 <<Field("", "author", <<Field("", "__typename", <<>>)>>)>>)>>)>>)>>,
       <<>>),
   lists |->
     Document("query",
       <<Field("", "posts", <<Field("", "title", <<>>), Field("v", "views", <<>>)>>),
         Field("", "__typename", <<>>)>>, <<>>),
   leaves |->
     Document("query",
       <<Field("", "me", <<Field("", "tags", <<>>), Field("", "role", <<>>),
                           Field("", "born", <<>>), Field("", "views", <<>>)>>)>>, <<>>),
   fragments |->
     Document("query",
       <<FragmentSpread("F"),
         Field("u", "user", <<Field("n", "name", <<>>)>>),
         Field("t", "__typename", <<>>)>>,
       <<Fragment("F", "Query",
           <<Field("u", "user", <<Field("", "id", <<>>)>>),
             Field("", "me", <<Field("", "views", <<>>)>>)>>)>>),
   service |->
     Document("query", <<Field("", "_service", <<Field("", "sdl", <<>>)>>)>>, <<>>),
   service_alias |->
     Document("query",
       <<Field("", "_service", <<Field("s", "sdl", <<>>), Field("", "__typename", <<>>)>>),
         Field("", "me", <<Field("", "id", <<>>)>>)>>, <<>>),
   introspection |->
     Document("query",
       <<Field("", "__schema", <<Field("", "queryType", <<Field("", "name", <<>>)>>)>>)>>,
       <<>>),
   type_by_name |->
     [Document("query", <<Field("", "__type", <<Field("", "name", <<>>)>>)>>, <<>>)
        EXCEPT !.variables = {"name"}],
   mutation |->
     Document("mutation", <<Field("", "rename", <<Field("", "id", <<>>)>>)>>, <<>>),
   subscription |->
     Document("subscription", <<Field("", "renamed", <<Field("", "id", <<>>)>>)>>, <<>>),
   tiny |->
     Document("query", <<Field("", "me", <<Field("", "id", <<>>)>>)>>, <<>>),
   unknown_field |->
     Document("query", <<Field("", "nobody", <<>>)>>, <<>>),
   garbled |-> [syntax_ok |-> FALSE, operation_type |-> "query",
                selections |-> <<>>, fragments |-> <<>>, variables |-> {}]]

\* the FederatedSchema State::new or update_schema builds from a loadable file
InstalledSchema(file) == Loaded[file].v

(***************************************************************************)
(* into_response_bytes_and_status_code: the body of the memoized function. *)
(***************************************************************************)
OK == 200
BAD_REQUEST == 400
NOT_FOUND == 404
INTERNAL_SERVER_ERROR == 500

\* serde_json::to_vec: the bytes of a JSON document; other bodies are text
JsonBytes(value) == [k |-> "json", json |-> value]
TextBytes(t) == [k |-> "text", text |-> t]
EmptyBytes == [k |-> "empty"]

Reply(bytes, status) == [bytes |-> bytes, status |-> status]

GraphQLRequest(query, variables) == [query |-> query, variables |-> variables]

\* parse_and_validate without its memoization
parse_and_validate(req, schema) ==
  ExecutableDocument_parse_and_validate(schema, QueryTexts[req.query])

InvalidQueryReply ==
  Reply(JsonBytes(JObject(("data" :> JNull)
                          @@ ("errors" :> JArray(<<JString("diagnostic")>>)))),
        BAD_REQUEST)

\* the replies when an operation of any type is answered like a query
RepliesFor_any_operation(cfg, req, schema, parsed) ==
  IF ~IsOk(parsed) THEN {Ok(InvalidQueryReply)}
  ELSE {CASE r.ok = "ok" -> Ok(Reply(JsonBytes(r.v), OK))
          [] r.ok = "err" ->
               Ok(Reply(TextBytes("unable to generate response"), INTERNAL_SERVER_ERROR))
          [] OTHER -> r :
        r \in generate_response(cfg, parsed.v, schema, req.variables)}

\* the replies the function can compute from a parsed document, and its panics
RepliesFor(cfg, req, schema, parsed) ==
  IF ~IsOk(parsed) THEN {Ok(InvalidQueryReply)}
  ELSE IF parsed.v.operation_type # "query"
  THEN {Ok(Reply(TextBytes("not implemented"), INTERNAL_SERVER_ERROR))}
  ELSE {CASE r.ok = "ok" -> Ok(Reply(JsonBytes(r.v), OK))
          [] r.ok = "err" ->
               Ok(Reply(TextBytes("unable to generate response"), INTERNAL_SERVER_ERROR))
          [] OTHER -> r :
        r \in generate_response(cfg, parsed.v, schema, req.variables)}

into_response_bytes_and_status_code_no_cache(cfg, req, schema) ==
  RepliesFor(cfg, req, schema, parse_and_validate(req, schema))

(***************************************************************************)
(* Latency generation.  A u64 is held as an integer r standing for r when  *)
(* r >= 0 and for 2^64 + r when r < 0, so a wrapped result stays within    *)
(* reach.  Arithmetic overflow panics in a build with overflow checks      *)
(* (debug) and wraps in one without (release).                             *)
(***************************************************************************)
Builds == {"debug", "release"}

U64Less(a, b) == IF (a >= 0) = (b >= 0) THEN a < b ELSE a >= 0

\* a - b on u64
U64Sub(a, b, build) ==
  IF U64Less(a, b) /\ build = "debug" THEN Panic("attempt to subtract with overflow")
  ELSE Ok(a - b)

\* a + b on u64
U64Add(a, b, build) ==
  IF /\ build = "debug"
     /\ \/ a < 0 /\ b < 0
        \/ (a < 0) # (b < 0) /\ a + b >= 0
  THEN Panic("attempt to add with overflow")
  ELSE Ok(a + b)

\* 2^64 mod p, for p below 2^15
Pow2_64Mod(p) ==
  LET p16 == 65536 % p
      p32 == (p16 * p16) % p
  IN  (p32 * p32) % p

\* a % p on u64, p > 0
U64Rem(a, p) == IF a >= 0 THEN a % p ELSE (Pow2_64Mod(p) + (a % p)) % p

\* a / b on u64, a small and b # 0
U64Div(a, b) == IF b < 0 THEN 0 ELSE a \div b

Shape(amplitude, period) == [amplitude |-> amplitude, period |-> period]
NoShape == <<>>
SomeShape(amplitude, period) == <<Shape(amplitude, period)>>

LatencyConfig(base, saw, sine, square, triangle) ==
  [base |-> base, saw |-> saw, sine |-> sine, square |-> square, triangle |-> triangle]

\* saw_ms
saw_ms(shape, elapsed, build) ==
  LET amplitude == shape.amplitude
      period == shape.period
  IN  IF period = 0 THEN Panic("attempt to calculate the remainder with a divisor of zero")
      ELSE U64Sub((((elapsed + period \div 2) % period) \div period) * amplitude * 2,
                  amplitude, build)

\* square_ms
square_ms(shape, elapsed, build) ==
  LET amplitude == shape.amplitude
      period == shape.period
  IN  IF period = 0 THEN Panic("attempt to calculate the remainder with a divisor of zero")
      ELSE IF elapsed % period < period \div 2 THEN Ok(amplitude) ELSE Ok(0)

\* sine_ms: round((sin(2 pi elapsed / period) + 1) / 2 * amplitude) in f64.
\* The sine is exact at the quarters of the period; between them the result
\* is held as the band the two neighbouring quarters bound, and where the
\* product falls on a half the last bit of the f64 decides the rounding.
\* A zero period makes the sine NaN, which the cast to u64 turns into 0.
sine_ms(shape, elapsed) ==
  LET amplitude == shape.amplitude
      period == shape.period
      low == amplitude \div 2
      high == (amplitude + 1) \div 2
      phase == elapsed % period
  IN  IF period = 0 THEN {0}
      ELSE IF 4 * phase = period THEN {amplitude}
      ELSE IF 4 * phase = 3 * period THEN {0}
      ELSE IF phase = 0 \/ 2 * phase = period THEN {low, high}
      ELSE IF 2 * phase < period THEN low..amplitude
      ELSE 0..high

\* triangle_ms
triangle_ms(shape, elapsed, build) ==
  LET amplitude == shape.amplitude
      period == shape.period
      shifted == U64Sub(elapsed, period \div 4, build)
      folded == U64Rem(U64Rem(shifted.v, period) + period, period)
      divisor == U64Sub(folded, period \div 2, build)
  IN  IF ~IsOk(shifted) THEN shifted
      ELSE IF period = 0
      THEN Panic("attempt to calculate the remainder with a divisor of zero")
      ELSE IF ~IsOk(divisor) THEN divisor
      ELSE IF divisor.v = 0 THEN Panic("attempt to divide by zero")
      ELSE U64Sub(U64Div(4 * amplitude, divisor.v), amplitude, build)

\* latency_ms += term
Accumulate(latency_ms, term, build) ==
  IF ~IsOk(latency_ms) THEN latency_ms
  ELSE IF ~IsOk(term) THEN term
  ELSE U64Add(latency_ms.v, term.v, build)

\* LatencyGenerator::generate: the durations (in ms) it can return, or its panic
LatencyGenerator_generate(cfg, elapsed_ms, build) ==
  LET with_saw ==
        IF cfg.saw = NoShape THEN Ok(cfg.base)
        ELSE Accumulate(Ok(cfg.base), saw_ms(cfg.saw[1], elapsed_ms, build), build)
      with_sine ==
        IF cfg.sine = NoShape THEN {with_saw}
        ELSE {Accumulate(with_saw, Ok(term), build) :
                term \in sine_ms(cfg.sine[1], elapsed_ms)}
      after(latency_ms) ==
        LET with_square ==
              IF cfg.square = NoShape THEN latency_ms
              ELSE Accumulate(latency_ms, square_ms(cfg.square[1], elapsed_ms, build), build)
        IN  IF cfg.triangle = NoShape THEN with_square
            ELSE IF ~IsOk(with_square) THEN with_square
            ELSE Accumulate(with_square,
                            triangle_ms(cfg.triangle[1], elapsed_ms, build), build)
  IN  {after(latency_ms) : latency_ms \in with_sine}

\* the latency configs the model draws from: the saw of the saw test, a saw
\* whose amplitude is below the base, the default config (a sine), a square,
\* a triangle and the triangle of the triangle test
LatencyConfigs ==
  [tested_saw |-> LatencyConfig(10, SomeShape(20, 10000), NoShape, NoShape, NoShape),
   small_saw |-> LatencyConfig(5, SomeShape(4, 8), NoShape, NoShape, NoShape),
   default |-> LatencyConfig(5, NoShape, SomeShape(2, 10000), NoShape, NoShape),
   square |-> LatencyConfig(10, NoShape, NoShape, SomeShape(6, 8), NoShape),
   triangle |-> LatencyConfig(10, NoShape, NoShape, NoShape, SomeShape(4, 8)),
   tested_triangle |-> LatencyConfig(0, NoShape, NoShape, NoShape, SomeShape(10, 10000))]

\* the clock runs over this many periods of the configured shape
MaxPeriods == 1

Longest(a, b) == IF a > b THEN a ELSE b
PeriodOf(opt) == IF opt = NoShape THEN 0 ELSE opt[1].period
LongestPeriod(cfg) ==
  Longest(Longest(PeriodOf(cfg.saw), PeriodOf(cfg.sine)),
          Longest(PeriodOf(cfg.square), PeriodOf(cfg.triangle)))

(***************************************************************************)
(* The configuration file.  A YAML value is a mapping, an integer (a       *)
(* duration is held as its milliseconds), a boolean, a string, a sequence  *)
(* of integers or null.                                                    *)
(***************************************************************************)
YMap(m) == [y |-> "map", m |-> m]
YInt(n) == [y |-> "int", n |-> n]
YBool(b) == [y |-> "bool", b |-> b]
YStr(t) == [y |-> "str", s |-> t]
YSeq(xs) == [y |-> "seq", xs |-> xs]
YNull == [y |-> "null"]
YEmpty == YMap([key \in {} |-> YNull])

Has(yaml, key) == yaml.y = "map" /\ key \in DOMAIN yaml.m

\* merge_yaml: mappings merge key by key, anything else is replaced
RECURSIVE merge_yaml(_, _)
\* a merge that takes the override's value under every key the override has
merge_yaml_shallow(overrides, base) ==
  IF overrides.y = "map" /\ base.y = "map"
  THEN YMap([key \in DOMAIN overrides.m \cup DOMAIN base.m |->
               IF key \in DOMAIN overrides.m THEN overrides.m[key] ELSE base.m[key]])
  ELSE overrides

merge_yaml(overrides, base) ==
  IF overrides.y = "map" /\ base.y = "map"
  THEN YMap([key \in DOMAIN overrides.m \cup DOMAIN base.m |->
               IF key \in DOMAIN overrides.m /\ key \in DOMAIN base.m
               THEN merge_yaml(overrides.m[key], base.m[key])
               ELSE IF key \in DOMAIN overrides.m THEN overrides.m[key]
               ELSE base.m[key]])
  ELSE overrides

\* Deserialize for Option<Ratio>: null or a pair of u32
IsRatio(yaml) ==
  \/ yaml.y = "null"
  \/ yaml.y = "seq" /\ Len(yaml.xs) = 2 /\ \A i \in 1..2 : yaml.xs[i] >= 0
de_ratio(yaml) == IF yaml.y = "null" THEN None ELSE Some(yaml.xs[1], yaml.xs[2])

\* Deserialize for ScalarGenerator, tagged by "type"
IsScalarGenerator(yaml) ==
  /\ Has(yaml, "type") /\ yaml.m["type"].y = "str"
  /\ CASE yaml.m["type"].s = "bool" -> TRUE
        [] yaml.m["type"].s \in {"int", "float"} ->
             /\ Has(yaml, "min") /\ yaml.m["min"].y = "int"
             /\ Has(yaml, "max") /\ yaml.m["max"].y = "int"
        [] yaml.m["type"].s = "string" ->
             /\ Has(yaml, "min_len") /\ yaml.m["min_len"].y = "int"
             /\ yaml.m["min_len"].n >= 0
             /\ Has(yaml, "max_len") /\ yaml.m["max_len"].y = "int"
             /\ yaml.m["max_len"].n >= 0
        [] OTHER -> FALSE
de_scalar_generator(yaml) ==
  CASE yaml.m["type"].s = "bool" -> Bool
    [] yaml.m["type"].s = "int" -> IntGen(yaml.m["min"].n, yaml.m["max"].n)
    [] yaml.m["type"].s = "float" -> FloatGen(yaml.m["min"].n, yaml.m["max"].n)
    [] OTHER -> StringGen(yaml.m["min_len"].n, yaml.m["max_len"].n)

\* Deserialize for ResponseGenerationConfig: each field has its own default
IsResponseGenerationConfig(yaml) ==
  /\ yaml.y = "map"
  /\ Has(yaml, "scalars") =>
       /\ yaml.m["scalars"].y = "map"
       /\ \A name \in DOMAIN yaml.m["scalars"].m :
            IsScalarGenerator(yaml.m["scalars"].m[name])
  /\ Has(yaml, "array") =>
       /\ Has(yaml.m["array"], "min_length") /\ yaml.m["array"].m["min_length"].y = "int"
       /\ yaml.m["array"].m["min_length"].n >= 0
       /\ Has(yaml.m["array"], "max_length") /\ yaml.m["array"].m["max_length"].y = "int"
       /\ yaml.m["array"].m["max_length"].n >= 0
  /\ Has(yaml, "null_ratio") => IsRatio(yaml.m["null_ratio"])
  /\ Has(yaml, "http_error_ratio") => IsRatio(yaml.m["http_error_ratio"])
  /\ Has(yaml, "header_ratio") =>
       /\ yaml.m["header_ratio"].y = "map"
       /\ \A name \in DOMAIN yaml.m["header_ratio"].m :
            /\ yaml.m["header_ratio"].m[name].y = "seq"
            /\ IsRatio(yaml.m["header_ratio"].m[name])
  /\ Has(yaml, "graphql_errors") =>
       /\ yaml.m["graphql_errors"].y = "map"
       /\ \A key \in DOMAIN yaml.m["graphql_errors"].m
                     \cap {"request_error_ratio", "field_error_ratio"} :
            IsRatio(yaml.m["graphql_errors"].m[key])

de_optional_ratio(yaml, key, default) ==
  IF Has(yaml, key) THEN de_ratio(yaml.m[key]) ELSE default

de_response_generation(yaml) ==
  [scalars |->
     IF Has(yaml, "scalars")
     THEN [name \in DOMAIN yaml.m["scalars"].m |->
             de_scalar_generator(yaml.m["scalars"].m[name])]
     ELSE default_scalar_config,
   array |->
     IF Has(yaml, "array")
     THEN [min_length |-> yaml.m["array"].m["min_length"].n,
           max_length |-> yaml.m["array"].m["max_length"].n]
     ELSE default_array_size,
   null_ratio |-> de_optional_ratio(yaml, "null_ratio", default_null_ratio),
   header_ratio |->
     IF Has(yaml, "header_ratio")
     THEN [name \in DOMAIN yaml.m["header_ratio"].m |->
             de_ratio(yaml.m["header_ratio"].m[name])]
     ELSE EmptyMap,
   http_error_ratio |-> de_optional_ratio(yaml, "http_error_ratio", None),
   graphql_errors |->
     IF Has(yaml, "graphql_errors")
     THEN GraphQLErrorConfig(
            de_optional_ratio(yaml.m["graphql_errors"], "request_error_ratio", None),
            de_optional_ratio(yaml.m["graphql_errors"], "field_error_ratio", None))
     ELSE GraphQLErrorConfig(None, None)]


\* Deserialize for LatencyConfig: base is required, a shape is optional
IsShape(yaml) ==
  \/ yaml.y = "null"
  \/ /\ Has(yaml, "amplitude") /\ yaml.m["amplitude"].y = "int" /\ yaml.m["amplitude"].n >= 0
     /\ Has(yaml, "period") /\ yaml.m["period"].y = "int" /\ yaml.m["period"].n >= 0
IsLatencyConfig(yaml) ==
  /\ Has(yaml, "base") /\ yaml.m["base"].y = "int" /\ yaml.m["base"].n >= 0
  /\ \A key \in DOMAIN yaml.m \cap {"saw", "sine", "square", "triangle"} :
       IsShape(yaml.m[key])
de_shape(yaml, key) ==
  IF Has(yaml, key) /\ yaml.m[key].y # "null"
  THEN SomeShape(yaml.m[key].m["amplitude"].n, yaml.m[key].m["period"].n)
  ELSE NoShape
de_latency(yaml) ==
  LatencyConfig(yaml.m["base"].n, de_shape(yaml, "saw"), de_shape(yaml, "sine"),
                de_shape(yaml, "square"), de_shape(yaml, "triangle"))

\* LatencyConfig::default(): 5 ms and a sine of 2 ms every 10 s
LatencyConfig_default == LatencyConfig(5, NoShape, SomeShape(2, 10000), NoShape, NoShape)

default_port == 8080
default_cache_responses == TRUE
MaxPort == 65535

\* Deserialize for BaseConfig: an absent field takes its default, a present
\* one must deserialize as a whole
IsBaseConfig(yaml) ==
  /\ yaml.y = "map"
  /\ Has(yaml, "port") => yaml.m["port"].y = "int" /\ yaml.m["port"].n \in 0..MaxPort
  /\ Has(yaml, "headers") =>
       /\ yaml.m["headers"].y = "map"
       /\ \A name \in DOMAIN yaml.m["headers"].m : yaml.m["headers"].m[name].y = "str"
  /\ Has(yaml, "latency") => IsLatencyConfig(yaml.m["latency"])
  /\ Has(yaml, "response_generation") =>
       IsResponseGenerationConfig(yaml.m["response_generation"])
  /\ Has(yaml, "cache_responses") => yaml.m["cache_responses"].y = "bool"

de_base_config(yaml) ==
  [port |-> IF Has(yaml, "port") THEN yaml.m["port"].n ELSE default_port,
   headers |-> IF Has(yaml, "headers")
               THEN [name \in DOMAIN yaml.m["headers"].m |-> yaml.m["headers"].m[name].s]
               ELSE EmptyMap,
   latency |-> IF Has(yaml, "latency") THEN de_latency(yaml.m["latency"])
               ELSE LatencyConfig_default,
   response_generation |->
     IF Has(yaml, "response_generation")
     THEN de_response_generation(yaml.m["response_generation"])
     ELSE ResponseGenerationConfig_default,
   cache_responses |-> IF Has(yaml, "cache_responses") THEN yaml.m["cache_responses"].b
                       ELSE default_cache_responses]

\* HeaderName::try_from rejects the empty name (the names drawn are otherwise
\* tokens, the values visible ASCII)
ValidHeaderName(name) == name # ""

\* BaseConfig::into_parts: port, cache flag, latency generator, headers and
\* the response-generation config with the default scalars merged in
into_parts(base_config) ==
  IF \E name \in DOMAIN base_config.headers : ~ValidHeaderName(name)
  THEN Err("invalid HTTP header name")
  ELSE Ok([port |-> base_config.port,
           cache_responses |-> base_config.cache_responses,
           latency_generator |-> base_config.latency,
           headers |-> base_config.headers,
           response_generation |-> merge_default_scalars(base_config.response_generation)])

SUBGRAPH_OVERRIDES_KEY == "subgraph_overrides"

\* the mapping without one of its keys
Without(yaml, removed) == YMap([key \in DOMAIN yaml.m \ {removed} |-> yaml.m[key]])

\* serde_yaml::from_value::<BaseConfig>(..)?.into_parts()?
base_parts(yaml) ==
  IF ~IsBaseConfig(yaml) THEN Err("invalid type")
  ELSE into_parts(de_base_config(yaml))

\* Config::parse_yaml: the overrides are taken out of the mapping, each is
\* merged onto a clone of what is left and parsed as a BaseConfig of its own
parse_yaml(yaml) ==
  IF yaml.y # "map" THEN Err("config file must be a mapping")
  ELSE
    LET base == Without(yaml, SUBGRAPH_OVERRIDES_KEY)
        overrides == IF Has(yaml, SUBGRAPH_OVERRIDES_KEY)
                     THEN yaml.m[SUBGRAPH_OVERRIDES_KEY] ELSE YEmpty
        parts(subgraph_name) == base_parts(merge_yaml(overrides.m[subgraph_name], base))
    IN  IF overrides.y # "map" THEN Err("config file must be a mapping")
        ELSE IF \E name \in DOMAIN overrides.m : overrides.m[name].y # "map"
        THEN Err("subgraph override must be a mapping")
        ELSE IF \E name \in DOMAIN overrides.m : ~IsOk(parts(name))
        THEN Err("invalid subgraph override")
        ELSE IF ~IsOk(base_parts(base)) THEN base_parts(base)
        ELSE LET own == base_parts(base).v IN
             Ok([port |-> own.port,
                 cfg |->
                   [headers |-> own.headers,
                    latency_generator |-> own.latency_generator,
                    response_generation |-> own.response_generation,
                    cache_responses |-> own.cache_responses,
                    subgraph_overrides |->
                      [headers |->
                         [name \in DOMAIN overrides.m |-> parts(name).v.headers],
                       latency_generator |->
                         [name \in DOMAIN overrides.m |-> parts(name).v.latency_generator],
                       response_generation |->
                         [name \in DOMAIN overrides.m |-> parts(name).v.response_generation],
                       cache_responses |->
                         [name \in DOMAIN overrides.m |-> parts(name).v.cache_responses]]]])


\* the largest array length and the largest integer of the cut-down configs
MaxGenLen == 2
MaxGenInt == 1

SmallScalars ==
  [Int |-> IntGen(0, MaxGenInt), ID |-> IntGen(0, MaxGenInt),
   String |-> StringGen(1, 2)]

SmallConfig(array_min, null_ratio, field_error_ratio) ==
  merge_default_scalars(
    [ResponseGenerationConfig_default EXCEPT
       !.scalars = SmallScalars,
       !.array = [min_length |-> array_min, max_length |-> MaxGenLen],
       !.null_ratio = null_ratio,
       !.graphql_errors = GraphQLErrorConfig(None, field_error_ratio)])

\* the configuration files the model parses: four the server is started
\* from, four whose ratios or ranges no draw can be made from
YScalar(type, min, max) ==
  IF type = "string"
  THEN YMap([type |-> YStr(type), min_len |-> YInt(min), max_len |-> YInt(max)])
  ELSE YMap([type |-> YStr(type), min |-> YInt(min), max |-> YInt(max)])
YArraySize(min_length, max_length) ==
  YMap([min_length |-> YInt(min_length), max_length |-> YInt(max_length)])
YSmallGeneration(array_min, array_max, null_ratio) ==
  YMap([scalars |-> YMap([Int |-> YScalar("int", 0, MaxGenInt),
                          ID |-> YScalar("int", 0, MaxGenInt),
                          String |-> YScalar("string", 1, 2)]),
        array |-> YArraySize(array_min, array_max),
        null_ratio |-> null_ratio])
YHeaders(name, value) == YMap(name :> YStr(value))

ConfigFiles ==
  [cached |->
     YMap([response_generation |-> YSmallGeneration(1, MaxGenLen, YNull)]),
   flaky |->
     YMap([response_generation |->
             merge_yaml(YMap([http_error_ratio |-> YSeq(<<1, 2>>)]),
                        YSmallGeneration(1, MaxGenLen, YNull))]),
   uncached |->
     YMap([response_generation |-> YSmallGeneration(1, MaxGenLen, YNull),
           cache_responses |-> YBool(FALSE),
           subgraph_overrides |->
             YMap([kept |-> YMap([cache_responses |-> YBool(TRUE)])])]),
   overrides |->
     YMap([headers |-> YHeaders("test-header", "test-header-normal-value"),
           response_generation |-> YSmallGeneration(1, MaxGenLen, YNull),
           subgraph_overrides |->
             YMap([special |->
                     YMap([headers |->
                             YHeaders("test-header", "test-header-overridden-value"),
                           cache_responses |-> YBool(FALSE),
                           latency |-> YMap([base |-> YInt(1)]),
                           response_generation |->
                             YMap([scalars |->
                                     YMap([ID |-> YScalar("int", MaxGenInt + 1,
                                                          MaxGenInt + 1)])])]),
                   a |-> YMap([headers |-> YHeaders("extra", "a")]),
                   b |-> YMap([cache_responses |-> YBool(TRUE)])])]),
   zero_denominator |->
     YMap([response_generation |-> YSmallGeneration(1, 1, YSeq(<<1, 0>>))]),
   improper_ratio |->
     YMap([response_generation |-> YSmallGeneration(1, 1, YSeq(<<2, 1>>))]),
   inverted_array |->
     YMap([response_generation |-> YSmallGeneration(2, 1, YNull)]),
   inverted_int |->
     YMap([response_generation |->
             YMap([scalars |-> YMap([ID |-> YScalar("int", 1, 0)]),
                   array |-> YArraySize(1, 1), null_ratio |-> YNull])])]

Parsed == Tabulated([file \in DOMAIN ConfigFiles |-> parse_yaml(ConfigFiles[file])])

\* a cut-down config with the request-error trial switched on
WithRequestErrors(cfg, ratio) ==
  [cfg EXCEPT !.graphql_errors.request_error_ratio = ratio]

\* a cut-down config with the HTTP-error trial switched on
WithHttpErrors(cfg) == [cfg EXCEPT !.http_error_ratio = Some(1, 2)]

GenConfigs ==
  [defaults |-> ResponseGenerationConfig_default,
   tiny |-> SmallConfig(1, None, None),
   tiny_http |-> WithHttpErrors(SmallConfig(1, None, None)),
   small |-> SmallConfig(0, Some(1, 2), None),
   no_null |-> SmallConfig(1, None, None),
   all_null |-> SmallConfig(0, Some(1, 1), None),
   field_errors |-> SmallConfig(1, None, Some(1, 2)),
   both_errors |-> WithRequestErrors(SmallConfig(1, None, Some(1, 2)), Some(1, 2)),
   always_errors |-> WithRequestErrors(SmallConfig(1, None, Some(1, 1)), Some(1, 1)),
   zero_denominator |-> Parsed["zero_denominator"].v.cfg.response_generation,
   improper_ratio |-> Parsed["improper_ratio"].v.cfg.response_generation,
   inverted_array |-> Parsed["inverted_array"].v.cfg.response_generation,
   inverted_int |-> Parsed["inverted_int"].v.cfg.response_generation]

\* the configs whose draws cannot be made
PanickingConfigs == {"zero_denominator", "improper_ratio", "inverted_array", "inverted_int"}

\* the default ranges are too wide to enumerate under arrays: the default
\* config is drawn with the queries that select no list
GenInputs ==
  {in \in [file : LoadableFiles, cfg : DOMAIN GenConfigs, query : DOMAIN QueryTexts] :
     /\ in.cfg = "defaults" => in.query \in {"scenario", "service", "introspection"}
     /\ in.cfg \in {"tiny", "tiny_http"} => in.query = "tiny"
     /\ in.cfg \in {"both_errors", "always_errors"} =>
          in.query \in {"tiny", "fragments", "introspection", "unknown_field"}
     /\ in.cfg \in PanickingConfigs =>
          in.query \in {"tiny", "lists", "introspection", "unknown_field"}
     /\ in.query = "type_by_name" => in.cfg = "small"
     /\ in.file \in {"plain", "subgraph", "mutating"}
     /\ in.file = "mutating" =>
          in.cfg = "small" /\ in.query \in {"mutation", "subscription", "tiny"}}

(***************************************************************************)
(* The server: requests, the two memoization caches, the schema behind its *)
(* read-write lock and the watcher that hot-reloads it.                    *)
(***************************************************************************)
Handlers == {1, 2}

\* the Configs the server is started with
ServerConfigFiles == {"cached", "flaky", "uncached", "overrides"}
ServerConfigs == {Parsed[file].v.cfg : file \in ServerConfigFiles}

\* a path is held as its segments: <<>> is `/`, <<"a">> is `/a`
Request(method, path, json, query, variables) ==
  [method |-> method, path |-> path, json |-> json, query |-> query,
   variables |-> variables]

\* the requests the model sends: to every server a query, an invalid query, a
\* body that is not JSON and a GET; to one with overrides the query on the
\* route of each override and of a subgraph without one; to one that caches
\* and has neither overrides nor HTTP errors an introspection query with
\* either value of its variable
RequestsTo(cfg) ==
  {Request("POST", <<>>, TRUE, "tiny", "none"),
   Request("POST", <<>>, TRUE, "unknown_field", "none"),
   Request("POST", <<>>, FALSE, "", "none"),
   Request("GET", <<>>, TRUE, "", "none")}
  \cup {Request("POST", <<name>>, TRUE, "tiny", "none") :
          name \in IF DOMAIN cfg.subgraph_overrides.headers = {} THEN {}
                   ELSE DOMAIN cfg.subgraph_overrides.headers \cup {"other"}}
  \cup (IF /\ cfg.cache_responses
           /\ DOMAIN cfg.subgraph_overrides.headers = {}
           /\ cfg.response_generation.http_error_ratio = None
        THEN {Request("POST", <<>>, TRUE, "type_by_name", v) : v \in {"User", "Post"}}
        ELSE {})
Requests == UNION {RequestsTo(cfg) : cfg \in ServerConfigs}

\* handle_request's route match: POST /{subgraph_name}, further segments
\* ignored, or POST /
subgraph_name(path) == IF path = <<>> THEN None ELSE <<path[1]>>

\* every request generating its response from the base config
response_generation_of_base(cfg, name) == cfg.response_generation

\* the four settings of a request: the override's where the name has one
response_generation_for(cfg, name) ==
  IF name # None /\ name[1] \in DOMAIN cfg.subgraph_overrides.response_generation
  THEN cfg.subgraph_overrides.response_generation[name[1]]
  ELSE cfg.response_generation
\* every request caching as the base config says
cache_responses_of_base(cfg, name) == cfg.cache_responses

cache_responses_for(cfg, name) ==
  IF name # None /\ name[1] \in DOMAIN cfg.subgraph_overrides.cache_responses
  THEN cfg.subgraph_overrides.cache_responses[name[1]]
  ELSE cfg.cache_responses
headers_for(cfg, name) ==
  IF name # None /\ name[1] \in DOMAIN cfg.subgraph_overrides.headers
  THEN cfg.subgraph_overrides.headers[name[1]]
  ELSE cfg.headers
latency_generator_for(cfg, name) ==
  IF name # None /\ name[1] \in DOMAIN cfg.subgraph_overrides.latency_generator
  THEN cfg.subgraph_overrides.latency_generator[name[1]]
  ELSE cfg.latency_generator

\* add_headers: each configured header, subject to the trial of its
\* header_ratio entry when it has one, then Content-Type
add_headers(cfg, rgen_cfg, name) ==
  LET list == headers_for(cfg, name)
      ratio(header) == rgen_cfg.header_ratio[header]
      tried == DOMAIN list \cap DOMAIN rgen_cfg.header_ratio
  IN  IF \E header \in tried : RatioPanics(ratio(header)) THEN {Panic("ratio")}
      ELSE {Ok(("content-type" :> "application/json")
               @@ [header \in inserted |-> list[header]]) :
              inserted \in {chosen \in SUBSET DOMAIN list :
                              \A header \in DOMAIN list :
                                 (header \in chosen) \in
                                   (IF header \in tried THEN random_ratio(ratio(header))
                                    ELSE {TRUE})}}

\* the file the server starts from and what later edits leave at its path
InitialFiles == {"plain"}
EditedFiles == {"plain", "edited", "dangling", "rootless", "garbled", "missing"}

\* the edits the model makes: every one under the plain caching config,
\* the two valid files under the others
EditsUnder(cfg) ==
  IF /\ cfg.cache_responses
     /\ DOMAIN cfg.subgraph_overrides.headers = {}
     /\ cfg.response_generation.http_error_ratio = None
  THEN EditedFiles ELSE {"plain", "edited"}

\* the most events of one run: requests received and edits of the schema file
MaxEvents == 3

\* Hash of a FederatedSchema: of its source text alone
SourceHash(federated) == federated

\* the hash without the schema: the same whatever schema is installed
cache_hash_without_schema(query, rgen_cfg, federated) ==
  <<query, rgen_cfg, SourceHash("plain")>>

\* the DefaultHasher fed the query, the response-generation config and the schema
cache_hash(query, rgen_cfg, federated) == <<query, rgen_cfg, SourceHash(federated)>>

NoHash == <<>>

\* what the server's requests can compute, per response-generation config,
\* query and schema the server can have installed: the document parse_and_validate yields and
\* the outcomes of into_response_bytes_and_status_code's body
ServerQueries == {req.query : req \in {r \in Requests : r.method = "POST" /\ r.json}}
ServerVariables == {req.variables : req \in Requests}
ServerGenerations ==
  UNION {{cfg.response_generation}
         \cup {cfg.subgraph_overrides.response_generation[name] :
                 name \in DOMAIN cfg.subgraph_overrides.response_generation} :
         cfg \in ServerConfigs}
ServerFiles == {f : f \in {g \in InitialFiles \cup EditedFiles : IsOk(Loaded[g])}}
ServerDocuments ==
  Tabulated(
    [query \in ServerQueries, file \in ServerFiles |->
       parse_and_validate(GraphQLRequest(query, "none"), InstalledSchema(file).valid)])
ServerReplies ==
  Tabulated(
    [rgen_cfg \in ServerGenerations, query \in ServerQueries,
     variables \in ServerVariables, file \in ServerFiles |->
       {out : out \in RepliesFor(rgen_cfg, GraphQLRequest(query, variables),
                                 InstalledSchema(file).valid,
                                 ServerDocuments[query, file])}])

\* the HTTP-error trial answering with any status from 500 to 505
http_error_statuses_past_504(rgen_cfg) ==
  IF rgen_cfg.http_error_ratio = None THEN {0}
  ELSE (IF FALSE \in random_ratio(rgen_cfg.http_error_ratio) THEN {0} ELSE {})
       \cup (IF TRUE \in random_ratio(rgen_cfg.http_error_ratio) THEN 500..505 ELSE {})

\* the possible outcomes of the HTTP-error trial: no error, or a status
http_error_statuses(rgen_cfg) ==
  IF rgen_cfg.http_error_ratio = None THEN {0}
  ELSE (IF FALSE \in random_ratio(rgen_cfg.http_error_ratio) THEN {0} ELSE {})
       \cup (IF TRUE \in random_ratio(rgen_cfg.http_error_ratio) THEN 500..504 ELSE {})

\* update_schema writing whatever is at the path, parsed or not
update_schema_unchecked(disk_file) ==
  [write |-> TRUE, schema |-> disk_file]

\* update_schema up to the write: FederatedSchema::parse(path)? returns the
\* error before the lock is touched
update_schema(disk_file) ==
  [write |-> IsOk(Loaded[disk_file]), schema |-> disk_file]

(***************************************************************************)
(* State.                                                                  *)
(***************************************************************************)
VARIABLES
  gen,         \* one run of the synthesizer: its inputs, then its outcome
  lat,         \* a latency generator: its config, the build, the ms since
               \* start, the latency last generated
  config,      \* the server's Config
  disk,        \* what is at the schema path
  watcher,     \* the poll watcher: the content it last saw, where it is in
               \* update_schema, the schema it parsed, its last attempt, and
               \* (as history) the schemas that reloads have replaced
  state_schema, \* the FederatedSchema behind the RwLock
  readers,     \* the handlers holding a read guard on the schema
  resp_cache,  \* the memo of into_response_bytes_and_status_code
  doc_cache,   \* the memo of parse_and_validate: the hashes it holds a
               \* document for (the hash covers the query and the schema
               \* source, so the document held is the one parsing yields)
  handlers,    \* each handler's position, request, hash, reply, response
               \* headers and latency
  sent,        \* per hash, the body of the first response sent for it that
               \* is not a simulated HTTP error
  counts       \* requests received and edits made so far

server == <<config, disk, watcher, state_schema, readers, resp_cache, doc_cache,
            handlers, sent, counts>>
vars == <<gen, lat, server>>

NoOutcome == [ok |-> "none"]
GenIdle == [phase |-> "idle"]
LatIdle == [cfg |-> "default", build |-> "release", now |-> 0, latency |-> NoOutcome]

NoRequest == Request("", <<>>, FALSE, "", "none")
NoReply == [bytes |-> EmptyBytes, status |-> 0]
IdleHandler ==
  [pc |-> "idle", req |-> NoRequest, hash |-> NoHash, reply |-> NoReply, reload |-> "none",
   headers |-> EmptyMap, latency |-> NoOutcome]
NoMap == [x \in {} |-> 0]

ServerInit ==
  /\ config \in ServerConfigs
  /\ disk \in InitialFiles
  /\ IsOk(Loaded[disk])
  /\ state_schema = disk
  /\ watcher = [seen |-> disk, pc |-> "idle", parsed |-> "none", attempt |-> "none",
                prior |-> "none", past |-> {}]
  /\ readers = {}
  /\ resp_cache = NoMap
  /\ doc_cache = {}
  /\ handlers = [h \in Handlers |-> IdleHandler]
  /\ sent = NoMap
  /\ counts = [requests |-> 0, edits |-> 0]

\* the server as SpecGen and SpecLatency hold it: started and left alone
ServerIdle ==
  /\ config = Parsed["cached"].v.cfg
  /\ disk = "plain"
  /\ state_schema = "plain"
  /\ watcher = [seen |-> "plain", pc |-> "idle", parsed |-> "none", attempt |-> "none",
                prior |-> "none", past |-> {}]
  /\ readers = {}
  /\ resp_cache = NoMap
  /\ doc_cache = {}
  /\ handlers = [h \in Handlers |-> IdleHandler]
  /\ sent = NoMap
  /\ counts = [requests |-> 0, edits |-> 0]

(***************************************************************************)
(* SpecGen: one synthesis on inputs drawn from GenInputs, or one load of a  *)
(* schema file.                                                            *)
(***************************************************************************)
GenInit ==
  /\ gen \in {[phase |-> "input", in |-> i, out |-> NoOutcome] : i \in GenInputs}
             \cup {[phase |-> "file",
                    in |-> [file |-> f, cfg |-> "tiny", query |-> "tiny"],
                    out |-> NoOutcome] : f \in FileStates}
  /\ lat = LatIdle
  /\ ServerIdle

Synthesize ==
  /\ gen.phase = "input"
  /\ \E out \in into_response_bytes_and_status_code_no_cache(
                  GenConfigs[gen.in.cfg],
                  GraphQLRequest(gen.in.query, "none"),
                  InstalledSchema(gen.in.file).valid) :
        gen' = [gen EXCEPT !.phase = "done", !.out = out]
  /\ UNCHANGED <<lat, server>>

\* FederatedSchema::parse on the file drawn
Load ==
  /\ gen.phase = "file"
  /\ gen' = [gen EXCEPT !.phase = "loaded", !.out = Loaded[gen.in.file]]
  /\ UNCHANGED <<lat, server>>

GenNext == Synthesize \/ Load

SpecGen == GenInit /\ [][GenNext]_vars

(***************************************************************************)
(* SpecLatency: a latency generator read as its clock advances.            *)
(***************************************************************************)
LatInit ==
  /\ lat \in {[cfg |-> c, build |-> b, now |-> 0, latency |-> NoOutcome] :
                c \in DOMAIN LatencyConfigs, b \in Builds}
  /\ gen = GenIdle
  /\ ServerIdle

\* a millisecond passes
Advance ==
  /\ lat.now <= MaxPeriods * LongestPeriod(LatencyConfigs[lat.cfg])
  /\ lat' = [lat EXCEPT !.now = @ + 1, !.latency = NoOutcome]
  /\ UNCHANGED <<gen, server>>

\* generate(Instant::now())
Generate ==
  /\ lat.latency = NoOutcome
  /\ \E latency \in LatencyGenerator_generate(LatencyConfigs[lat.cfg], lat.now, lat.build) :
       lat' = [lat EXCEPT !.latency = latency]
  /\ UNCHANGED <<gen, server>>

LatNext == Advance \/ Generate

SpecLatency == LatInit /\ [][LatNext]_vars

(***************************************************************************)
(* SpecMerge: merge_yaml applied to a pair of YAML values, then applied    *)
(* again with the same overrides to what the first merge left in base.     *)
(***************************************************************************)
\* the values drawn: scalars and arrays, mappings of them under the keys a
\* and b, and mappings of all of those
YamlKeys == {"a", "b"}
YamlLeaves == {YInt(1), YSeq(<<1>>), YSeq(<<2>>)}
YamlMapsOf(values) ==
  UNION {{YMap(m) : m \in [keys -> values]} : keys \in SUBSET YamlKeys}
YamlFlat == YamlLeaves \cup YamlMapsOf(YamlLeaves)
YamlValues == YamlFlat \cup YamlMapsOf(YamlFlat)

MergeInit ==
  /\ gen \in {[phase |-> "yaml", overrides |-> o, base |-> b, original |-> b] :
               o \in YamlValues, b \in YamlValues}
  /\ lat = LatIdle
  /\ ServerIdle

\* merge_yaml(overrides, &mut base)
Merge ==
  /\ gen.phase = "yaml"
  /\ gen' = [gen EXCEPT !.phase = "merged", !.base = merge_yaml(gen.overrides, gen.base)]
  /\ UNCHANGED <<lat, server>>

\* merge_yaml(overrides.clone(), &mut base) on the merged base
MergeAgain ==
  /\ gen.phase = "merged"
  /\ gen' = [gen EXCEPT !.phase = "merged twice",
                        !.base = merge_yaml(gen.overrides, gen.base)]
  /\ UNCHANGED <<lat, server>>

MergeNext == Merge \/ MergeAgain

SpecMerge == MergeInit /\ [][MergeNext]_vars

(***************************************************************************)
(* Spec: the server handling requests while the schema file is edited.     *)
(* Its requests are all handled within the first millisecond after start.  *)
(***************************************************************************)
Init ==
  /\ ServerInit
  /\ gen = GenIdle
  /\ lat = LatIdle

SimulatedHttpError(reply) == reply.bytes = EmptyBytes /\ reply.status \in 500..504

\* a new request is taken by the first idle handler
FirstIdle(h) == \A other \in Handlers : handlers[other].pc = "idle" => other >= h

\* handle_request up to the call of graphql::handle, and handle's parse of
\* the body: a route other than POST answers 404, a body that is not a
\* GraphQL request 400
Reject(h) ==
  /\ handlers[h].pc = "idle"
  /\ FirstIdle(h)
  /\ counts.requests + counts.edits < MaxEvents
  /\ \E req \in {r \in RequestsTo(config) : r.method # "POST" \/ ~r.json} :
       handlers' = [handlers EXCEPT ![h] =
         [IdleHandler EXCEPT
            !.pc = "respond", !.req = req,
            !.reply = IF req.method # "POST"
                      THEN Reply(TextBytes("Not found\n"), NOT_FOUND)
                      ELSE Reply(TextBytes("invalid request"), BAD_REQUEST)]]
  /\ counts' = [counts EXCEPT !.requests = @ + 1]
  /\ UNCHANGED <<gen, lat, config, disk, watcher, state_schema, readers, resp_cache,
                 doc_cache, sent>>

\* handle with a GraphQL request: schema.read().await (a writer waiting for
\* the lock holds new readers back), the effective response-generation
\* config, the cache hash, the HTTP-error trial
Accept(h) ==
  /\ handlers[h].pc = "idle"
  /\ FirstIdle(h)
  /\ counts.requests + counts.edits < MaxEvents
  /\ watcher.pc # "writing"
  /\ \E req \in {r \in RequestsTo(config) : r.method = "POST" /\ r.json} :
       LET name == subgraph_name(req.path)
           rgen_cfg == response_generation_for(config, name)
           hash == cache_hash(req.query, rgen_cfg, state_schema)
           accepted == [IdleHandler EXCEPT !.req = req, !.hash = hash,
                                           !.reload = watcher.attempt]
       IN  \E status \in http_error_statuses(rgen_cfg) :
             IF status # 0
             THEN /\ handlers' = [handlers EXCEPT ![h] =
                       [accepted EXCEPT !.pc = "respond",
                                        !.reply = Reply(EmptyBytes, status)]]
                  /\ UNCHANGED readers
             ELSE /\ handlers' = [handlers EXCEPT ![h] =
                       [accepted EXCEPT !.pc = IF cache_responses_for(config, name)
                                               THEN "lookup" ELSE "compute"]]
                  /\ readers' = readers \cup {h}
  /\ counts' = [counts EXCEPT !.requests = @ + 1]
  /\ UNCHANGED <<gen, lat, config, disk, watcher, state_schema, resp_cache, doc_cache, sent>>

\* the end of handle, once the bytes and the status are there: add_headers,
\* and the read guards are dropped.  A panic ends the task without a reply.
Returned(handler, reply) ==
  LET name == subgraph_name(handler.req.path) IN
  {IF IsOk(added)
   THEN [handler EXCEPT !.pc = "respond", !.reply = reply, !.headers = added.v]
   ELSE IdleHandler :
     added \in add_headers(config, response_generation_for(config, name), name)}

\* into_response_bytes_and_status_code, as #[cached] wraps it: lock the
\* cache, look the hash up, unlock; a hit returns the stored value
Lookup(h) ==
  /\ handlers[h].pc = "lookup"
  /\ IF handlers[h].hash \in DOMAIN resp_cache
     THEN /\ \E returned \in Returned(handlers[h], resp_cache[handlers[h].hash]) :
               handlers' = [handlers EXCEPT ![h] = returned]
          /\ readers' = readers \ {h}
     ELSE /\ handlers' = [handlers EXCEPT ![h].pc = "compute"]
          /\ UNCHANGED readers
  /\ UNCHANGED <<gen, lat, config, disk, watcher, state_schema, resp_cache, doc_cache,
                 sent, counts>>

\* the body of into_response_bytes_and_status_code, run outside the cache
\* lock: parse_and_validate through its own memo (which keeps Ok results
\* only), then generate_response.  A panic ends the task without a reply.
Compute(h) ==
  /\ handlers[h].pc = "compute"
  /\ LET hash == handlers[h].hash
         req == handlers[h].req
         name == subgraph_name(req.path)
         parsed == ServerDocuments[req.query, state_schema]
     IN  /\ doc_cache' = IF IsOk(parsed) THEN doc_cache \cup {hash} ELSE doc_cache
         /\ \E out \in ServerReplies[response_generation_for(config, name), req.query,
                                     req.variables, state_schema] :
              IF ~IsOk(out)
              THEN /\ handlers' = [handlers EXCEPT ![h] = IdleHandler]
                   /\ readers' = readers \ {h}
              ELSE IF cache_responses_for(config, name)
              THEN /\ handlers' = [handlers EXCEPT ![h].pc = "store", ![h].reply = out.v]
                   /\ UNCHANGED readers
              ELSE /\ \E returned \in Returned(handlers[h], out.v) :
                        handlers' = [handlers EXCEPT ![h] = returned]
                   /\ readers' = readers \ {h}
  /\ UNCHANGED <<gen, lat, config, disk, watcher, state_schema, resp_cache, sent, counts>>

\* a handler that returns from the memoized function with its read guard
\* on the schema never dropped
Store_keeping_guard(h) ==
  /\ handlers[h].pc = "store"
  /\ resp_cache' = (handlers[h].hash :> handlers[h].reply) @@ resp_cache
  /\ \E returned \in Returned(handlers[h], handlers[h].reply) :
       handlers' = [handlers EXCEPT ![h] = returned]
  /\ UNCHANGED <<gen, lat, config, disk, watcher, state_schema, readers, doc_cache,
                 sent, counts>>

\* #[cached] after the body returns: lock the cache again and cache_set,
\* whatever the cache holds for the hash by now
Store(h) ==
  /\ handlers[h].pc = "store"
  /\ resp_cache' = (handlers[h].hash :> handlers[h].reply) @@ resp_cache
  /\ \E returned \in Returned(handlers[h], handlers[h].reply) :
       handlers' = [handlers EXCEPT ![h] = returned]
  /\ readers' = readers \ {h}
  /\ UNCHANGED <<gen, lat, config, disk, watcher, state_schema, doc_cache, sent, counts>>

\* handle_request after the route's arm returned Ok: the latency generator
\* of the subgraph's override or else the base one generates the latency
\* and the task goes to sleep
Sleep(h) ==
  /\ handlers[h].pc = "respond"
  /\ LET generator_override ==
           IF handlers[h].req.method = "POST"
           THEN subgraph_name(handlers[h].req.path) ELSE None
     IN  \E latency \in LatencyGenerator_generate(
                          latency_generator_for(config, generator_override),
                          lat.now, lat.build) :
           handlers' = [handlers EXCEPT ![h] =
                          IF IsOk(latency)
                          THEN [handlers[h] EXCEPT !.pc = "sleep", !.latency = latency]
                          ELSE IdleHandler]
  /\ UNCHANGED <<gen, lat, config, disk, watcher, state_schema, readers, resp_cache,
                 doc_cache, sent, counts>>

\* the sleep is over: the response is sent
Respond(h) ==
  /\ handlers[h].pc = "sleep"
  /\ sent' =
       IF /\ handlers[h].hash # NoHash
          /\ ~SimulatedHttpError(handlers[h].reply)
          /\ handlers[h].hash \notin DOMAIN sent
       THEN (handlers[h].hash :> handlers[h].reply.bytes) @@ sent
       ELSE sent
  /\ handlers' = [handlers EXCEPT ![h] = IdleHandler]
  /\ UNCHANGED <<gen, lat, config, disk, watcher, state_schema, readers, resp_cache,
                 doc_cache, counts>>

\* someone rewrites, replaces or removes the schema file
Edit ==
  /\ counts.requests + counts.edits < MaxEvents
  /\ \E f \in EditsUnder(config) \ {disk} : disk' = f
  /\ counts' = [counts EXCEPT !.edits = @ + 1]
  /\ UNCHANGED <<gen, lat, config, watcher, state_schema, readers, resp_cache, doc_cache,
                 handlers, sent>>

\* the PollWatcher compares contents: a changed file is a Modify event, a
\* removed or re-created one is not, and the callback acts on Modify only
Notice ==
  /\ watcher.pc = "idle"
  /\ disk # watcher.seen
  /\ watcher' = [watcher EXCEPT
                   !.seen = disk,
                   !.pc = IF disk = "missing" \/ watcher.seen = "missing"
                          THEN "idle" ELSE "reload"]
  /\ UNCHANGED <<gen, lat, config, disk, state_schema, readers, resp_cache, doc_cache,
                 handlers, sent, counts>>

\* update_schema: FederatedSchema::parse(path)?, a failure is logged
Reload ==
  /\ watcher.pc = "reload"
  /\ LET update == update_schema(disk) IN
     watcher' = IF update.write
                THEN [watcher EXCEPT !.pc = "writing", !.parsed = update.schema,
                                     !.attempt = "parsed"]
                ELSE [watcher EXCEPT !.pc = "idle", !.attempt = "failed",
                                     !.prior = state_schema]
  /\ UNCHANGED <<gen, lat, config, disk, state_schema, readers, resp_cache, doc_cache,
                 handlers, sent, counts>>

\* update_schema writing the schema while handlers hold read guards
Install_over_readers ==
  /\ watcher.pc = "writing"
  /\ state_schema' = watcher.parsed
  /\ watcher' = [watcher EXCEPT !.pc = "idle", !.parsed = "none",
                                !.attempt = "installed",
                                !.past = @ \cup {SourceHash(state_schema)}]
  /\ UNCHANGED <<gen, lat, config, disk, readers, resp_cache, doc_cache, handlers,
                 sent, counts>>

\* update_schema: *lock.blocking_write() = schema, once no reader is left
Install ==
  /\ watcher.pc = "writing"
  /\ readers = {}
  /\ state_schema' = watcher.parsed
  /\ watcher' = [watcher EXCEPT !.pc = "idle", !.parsed = "none",
                                !.attempt = "installed",
                                !.past = @ \cup {SourceHash(state_schema)}]
  /\ UNCHANGED <<gen, lat, config, disk, readers, resp_cache, doc_cache, handlers,
                 sent, counts>>

Next ==
  \/ \E h \in Handlers : Reject(h)
  \/ \E h \in Handlers : Accept(h)
  \/ \E h \in Handlers : Lookup(h)
  \/ \E h \in Handlers : Compute(h)
  \/ \E h \in Handlers : Store(h)
  \/ \E h \in Handlers : Sleep(h)
  \/ \E h \in Handlers : Respond(h)
  \/ Edit
  \/ Notice
  \/ Reload
  \/ Install

Spec == Init /\ [][Next]_vars

(***************************************************************************)
(* SpecFair: the server under fair scheduling, started from the config     *)
(* that has a route with caching off and a route with caching on.  The     *)
(* tokio runtime runs every task that can make progress, a sleep ends, and *)
(* the watcher's thread polls every second and runs its callback to the    *)
(* end; nothing obliges a client to send a request or anyone to edit the   *)
(* schema file.                                                            *)
(***************************************************************************)
FairInit == Init /\ config = Parsed["uncached"].v.cfg

Fairness ==
  /\ \A h \in Handlers :
        /\ WF_vars(Lookup(h))
        /\ WF_vars(Compute(h))
        /\ WF_vars(Store(h))
        /\ WF_vars(Sleep(h))
        /\ WF_vars(Respond(h))
  /\ WF_vars(Notice)
  /\ WF_vars(Reload)
  /\ WF_vars(Install)

SpecFair == FairInit /\ [][Next]_vars /\ Fairness

(***************************************************************************)
(* Reading a synthesized reply back against the query that produced it.    *)
(* The expectations below are computed from the document alone, not from   *)
(* the walker's own operators.                                             *)
(***************************************************************************)
GenSchema == InstalledSchema(gen.in.file)
GenCfg == GenConfigs[gen.in.cfg]
GenDoc == parse_and_validate(GraphQLRequest(gen.in.query, "none"), GenSchema.valid)
GenBody == gen.out.v.bytes.json

\* the run ended with a 200 reply whose data was produced by the selection walk
Synthesized ==
  /\ gen.phase = "done"
  /\ IsOk(gen.out)
  /\ gen.out.v.status = OK
  /\ IsOk(GenDoc)
  /\ ~is_introspection(GenDoc.v)
  /\ GenBody.m["data"].k = "object"

GenData == GenBody.m["data"].m

KeyOf(f) == IF f.alias # "" THEN f.alias ELSE f.name

\* the fields selected at a position, spreads and inline fragments expanded
RECURSIVE FlatFields(_, _)
FlatFields(doc, sels) ==
  IF sels = <<>> THEN <<>>
  ELSE LET s == Head(sels)
           rest == FlatFields(doc, Tail(sels))
       IN  IF s.kind = "field" THEN <<s>> \o rest
           ELSE IF s.kind = "inline"
           THEN FlatFields(doc, s.selection_set.selections) \o rest
           ELSE IF \E i \in DOMAIN doc.fragments : doc.fragments[i].name = s.name
           THEN FlatFields(doc,
                  (CHOOSE fr \in Range(doc.fragments) : fr.name = s.name)
                    .selection_set.selections) \o rest
           ELSE rest

FieldsAt(doc, set, key) ==
  LET flat == FlatFields(doc, set.selections) IN
  SeqFilter(flat, {f \in Range(flat) : KeyOf(f) = key})

KeysAt(doc, set) == {KeyOf(f) : f \in Range(FlatFields(doc, set.selections))}

RECURSIVE SubSelectionsOf(_)
SubSelectionsOf(fields) ==
  IF fields = <<>> THEN <<>>
  ELSE Head(fields).selection_set.selections \o SubSelectionsOf(Tail(fields))

\* the selection set below a response key: the first occurrence's type, the
\* sub-selections of every occurrence
SetBelow(doc, set, key) ==
  LET fields == FieldsAt(doc, set, key) IN
  [ty |-> fields[1].selection_set.ty, selections |-> SubSelectionsOf(fields)]

\* every object of a reply's data with the selection set it answers
RECURSIVE EmittedObjects(_, _, _)
EmittedObjects(doc, set, m) ==
  {[set |-> set, obj |-> m]}
  \cup UNION {
    IF FieldsAt(doc, set, key) = <<>> THEN {}
    ELSE IF m[key].k = "object"
    THEN EmittedObjects(doc, SetBelow(doc, set, key), m[key].m)
    ELSE IF m[key].k = "array"
    THEN UNION {IF m[key].xs[i].k = "object"
                THEN EmittedObjects(doc, SetBelow(doc, set, key), m[key].xs[i].m)
                ELSE {} : i \in DOMAIN m[key].xs}
    ELSE {} : key \in DOMAIN m}

\* every field value of a reply's data with the first field selected for it
EmittedFields(doc, set, m) ==
  UNION {{[parent |-> o.set.ty, field |-> FieldsAt(doc, o.set, key)[1],
           val |-> o.obj[key]] :
            key \in {k \in DOMAIN o.obj : FieldsAt(doc, o.set, k) # <<>>}} :
         o \in EmittedObjects(doc, set, m)}

GenObjects == EmittedObjects(GenDoc.v, GenDoc.v.selection_set, GenData)
GenFields == EmittedFields(GenDoc.v, GenDoc.v.selection_set, GenData)

\* the top-level keys a field-error drop removed from the reply
DroppedKeys ==
  IF "errors" \in DOMAIN GenBody.m
  THEN {GenBody.m["errors"].xs[i].m["path"].xs[1].s : i \in DOMAIN GenBody.m["errors"].xs}
  ELSE {}

(***************************************************************************)
(* Properties of one synthesis (SpecGen).                                  *)
(***************************************************************************)
\* C2: whenever a query selects _service { sdl }, the emitted sdl string is
\* exactly the source text of the installed schema file, the text before any
\* federation patching
C2_ServiceSdlIsSourceText ==
  Synthesized =>
    \A e \in GenFields :
      e.field.name = "_service" =>
        /\ e.val.k = "object"
        /\ "sdl" \in DOMAIN e.val.m
        /\ e.val.m["sdl"] = JText(sdl(GenSchema))

\* C4: every object the selection walk emits has exactly the response keys
\* (alias, else name) collected at its position with fragments expanded;
\* fields sharing a key yield one key answered from the union of their
\* sub-selections, with the list-ness of the first occurrence's type
C4_KeySetsMatchSelection ==
  Synthesized =>
    /\ \A o \in GenObjects :
         DOMAIN o.obj =
           IF o.obj = GenData /\ o.set = GenDoc.v.selection_set
           THEN KeysAt(GenDoc.v, o.set) \ DroppedKeys
           ELSE KeysAt(GenDoc.v, o.set)
    /\ \A e \in GenFields :
         e.val.k # "null" => (e.val.k = "array" <=> e.field.ty.list)

\* C5: when the field-error trial hits on data with top-level keys K, the
\* dropped keys E are a non-empty subset of K, the data keeps exactly K \ E
\* with the values the walk gave them, and the errors list holds exactly one
\* {message: "Field error simulated", path: [key]} per dropped key
C5_FieldErrorDropIsShallowAndExact ==
  (Synthesized /\ "errors" \in DOMAIN GenBody.m) =>
    LET doc == GenDoc.v
        K == KeysAt(doc, doc.selection_set)
        errs == GenBody.m["errors"].xs
        E == DroppedKeys
        D == DOMAIN GenData
    IN  /\ E # {}
        /\ E \subseteq K
        /\ D = K \ E
        /\ Len(errs) = Cardinality(E)
        /\ Len(errs) \in 1..Cardinality(K)
        /\ \A i \in DOMAIN errs :
             errs[i] = JObject(("message" :> JString("Field error simulated"))
                               @@ ("path" :> JArray(<<JString(errs[i].m["path"].xs[1].s)>>)))
        /\ \E full \in selection_set([schema |-> GenSchema.valid, doc |-> doc,
                                      cfg |-> GenCfg], doc.selection_set).vals :
             /\ DOMAIN full = K
             /\ \A key \in D : GenData[key] = full[key]

\* C5 witness: a reply that lost one top-level key to a field error and kept another
C5_Witness ==
  /\ Synthesized
  /\ "errors" \in DOMAIN GenBody.m
  /\ Cardinality(DroppedKeys) = 1
  /\ DOMAIN GenData # {}

\* C6: a field's value is null only if its declared type is nullable and a
\* null_ratio is configured; __typename and _service are never null
C6_NullOnlyWhenNullableAndConfigured ==
  Synthesized =>
    \A e \in GenFields :
      /\ e.val.k = "null" => (~e.field.ty.non_null /\ GenCfg.null_ratio # None)
      /\ e.field.name \in {"__typename", "_service"} => e.val.k # "null"

\* C6 witness: one reply holding a null for a nullable field, a value for a
\* non-null field and a __typename
C6_Witness ==
  /\ Synthesized
  /\ \E e \in GenFields : e.val.k = "null" /\ ~e.field.ty.non_null
  /\ \E e \in GenFields : e.val.k # "null" /\ e.field.ty.non_null
  /\ \E e \in GenFields : e.field.name = "__typename" /\ e.val.k = "string"

\* the generator the effective config gives a scalar: its entry in scalars,
\* else String of 1 to 10 characters
ExpectedGenerator(cfg, name) ==
  IF name \in DOMAIN cfg.scalars THEN cfg.scalars[name]
  ELSE [type |-> "string", min |-> 1, max |-> 10]

InRange(g, val) ==
  CASE g.type = "int" ->
         val.k = "number" /\ "n" \in DOMAIN val /\ val.n \in g.min..g.max
    [] g.type = "float" ->
         val.k = "number" /\ "f" \in DOMAIN val /\ val.f \in g.min..g.max
    [] g.type = "string" ->
         val.k = "string" /\ "chars" \in DOMAIN val /\ Len(val.chars) \in g.min..g.max
    [] OTHER -> val.k = "bool"

\* C7: every emitted non-null value lies in the configured range: Int leaves
\* in [min, max], String leaves of min_len to max_len characters, every array
\* of length in [array.min_length, array.max_length], and a scalar with no
\* entry in scalars a String of 1 to 10 characters.  The sdl text of the
\* hard-wired _service object comes from no generator and is not covered.
C7_ValuesWithinConfiguredRanges ==
  Synthesized =>
    LET cfg == GenCfg
        types == GenSchema.valid
    IN  \A e \in GenFields :
          /\ e.val.k = "array" =>
               Len(e.val.xs) \in cfg.array.min_length..cfg.array.max_length
          /\ (/\ e.field.selection_set.selections = <<>>
              /\ e.field.name # "__typename"
              /\ e.parent # "_Service"
              /\ KindOf(types, e.field.ty.name) = "scalar") =>
               \A leaf \in (IF e.val.k = "array" THEN Range(e.val.xs) ELSE {e.val}) :
                 leaf.k # "null" =>
                   InRange(ExpectedGenerator(cfg, e.field.ty.name), leaf)

\* C7 witness: one reply with a longest array, a largest Int and a
\* ten-character value of a scalar that has no entry in scalars
C7_Witness ==
  /\ Synthesized
  /\ gen.in.cfg = "small"
  /\ \E e \in GenFields : e.val.k = "array" /\ Len(e.val.xs) = MaxGenLen
  /\ \E e \in GenFields : e.field.ty.name = "Int" /\ e.val = JNumber(MaxGenInt)
  /\ \E e \in GenFields :
       /\ e.field.ty.name = "Date"
       /\ e.field.ty.name \notin DOMAIN GenCfg.scalars
       /\ e.val.k = "string" /\ Len(e.val.chars) = 10

\* the decimal text of a natural number
Digits == <<"0", "1", "2", "3", "4", "5", "6", "7", "8", "9">>
RECURSIVE Decimal(_)
Decimal(n) ==
  IF n < 10 THEN <<Digits[n + 1]>>
  ELSE Decimal(n \div 10) \o <<Digits[(n % 10) + 1]>>

DefaultIdLeaves ==
  {e \in GenFields : e.field.ty.name = "ID" /\ ~e.field.ty.list /\ e.val.k # "null"}

\* C8 as stated: with the default configuration an ID leaf is a JSON string
\* whose integer form lies in [0, 100]
C8_DefaultIdIsDecimalString ==
  (Synthesized /\ gen.in.cfg = "defaults") =>
    \A e \in DefaultIdLeaves : \E n \in 0..100 : e.val = JChars(Decimal(n))

\* C8 amended: with the default configuration an ID leaf is a JSON integer
\* number in [0, 100], not a string
C8_DefaultIdIsNumber ==
  (Synthesized /\ gen.in.cfg = "defaults") =>
    \A e \in DefaultIdLeaves : \E n \in 0..100 : e.val = JNumber(n)

\* C8 witness: the default configuration emitted id 100
C8_Witness ==
  /\ Synthesized
  /\ gen.in.cfg = "defaults"
  /\ \E e \in DefaultIdLeaves : e.val = JNumber(100)

\* C9: the __typename emitted inside a value of a union-typed field names a
\* member object type of the union, never the union itself
C9_UnionTypenameIsMember ==
  Synthesized =>
    \A e \in GenFields :
      (e.field.name = "__typename" /\ KindOf(GenSchema.valid, e.parent) = "union") =>
        \E i \in DOMAIN TypeOf(GenSchema.valid, e.parent).members :
          e.val = JString(TypeOf(GenSchema.valid, e.parent).members[i])

\* the flavour of each schema file, and the files that define no query root
\* (no type behind the root operation their schema names or implies)
FlavourOfFile ==
  [plain |-> "None", edited |-> "None", mutating |-> "None", dangling |-> "None",
   rootless |-> "None", unrooted |-> "None",
   subgraph |-> "Subgraph", rootless_subgraph |-> "Subgraph",
   supergraph |-> "Supergraph", rootless_supergraph |-> "Supergraph"]
FilesWithoutQueryRoot == {"rootless", "rootless_subgraph", "rootless_supergraph", "unrooted"}

\* C16: a successful load leaves the object type _Service { sdl: String! }
\* in the schema and a query root object with the field _service: _Service!;
\* a subgraph file without a query root loads, its root synthesized as an
\* object Query holding the injected fields alone; a file of another flavour
\* without a query root fails to load with an error
C16_ServiceInjectedAndRootRequired ==
  (gen.phase = "loaded" /\ gen.in.file \in DOMAIN FlavourOfFile) =>
    /\ IsOk(gen.out) =>
         LET types == gen.out.v.valid.types
             root == gen.out.v.valid.query
         IN  /\ \E i \in DOMAIN types :
                   /\ types[i].name = "_Service" /\ types[i].kind = "object"
                   /\ types[i].fields =
                        <<[name |-> "sdl",
                           ty |-> [name |-> "String", list |-> FALSE, non_null |-> TRUE]]>>
             /\ \E i \in DOMAIN types :
                   /\ types[i].name = root /\ types[i].kind = "object"
                   /\ \E j \in DOMAIN types[i].fields :
                        types[i].fields[j] =
                          [name |-> "_service",
                           ty |-> [name |-> "_Service", list |-> FALSE, non_null |-> TRUE]]
    /\ gen.in.file \in FilesWithoutQueryRoot =>
         IF FlavourOfFile[gen.in.file] = "Subgraph"
         THEN /\ IsOk(gen.out)
              /\ gen.out.v.valid.query = "Query"
              /\ \E i \in DOMAIN gen.out.v.valid.types :
                   /\ gen.out.v.valid.types[i].name = "Query"
                   /\ {fd.name : fd \in Range(gen.out.v.valid.types[i].fields)}
                        \subseteq {"_service", "_entities"}
         ELSE gen.out.ok = "err"

JsonReply ==
  /\ gen.phase = "done"
  /\ IsOk(gen.out)
  /\ gen.out.v.bytes.k = "json"

\* the messages of the error objects of a JSON reply
ErrorMessages ==
  IF "errors" \in DOMAIN GenBody.m
  THEN {e.m["message"] : e \in {x \in Range(GenBody.m["errors"].xs) : x.k = "object"}}
  ELSE {}

\* C14: a reply carrying the request error is HTTP 200 with data null and
\* that one error alone; a reply carrying a field error carries no request
\* error and has non-null data; and when the request-error trial always
\* hits, no reply to a valid query carries a field error, whatever the
\* field-error ratio
C14_RequestErrorExcludesFieldErrors ==
  JsonReply =>
    /\ JString("Request error simulated") \in ErrorMessages =>
         /\ gen.out.v.status = OK
         /\ DOMAIN GenBody.m = {"data", "errors"}
         /\ GenBody.m["data"] = JNull
         /\ GenBody.m["errors"] =
              JArray(<<JObject("message" :> JString("Request error simulated"))>>)
    /\ JString("Field error simulated") \in ErrorMessages =>
         /\ ErrorMessages = {JString("Field error simulated")}
         /\ GenBody.m["data"].k = "object"
    /\ (gen.in.cfg = "always_errors" /\ gen.out.v.status = OK) =>
         ErrorMessages = {JString("Request error simulated")}

\* C14 witness: with both trials configured, a reply that is the request
\* error alone
C14_Witness ==
  /\ JsonReply
  /\ gen.in.cfg = "both_errors"
  /\ GenCfg.graphql_errors.field_error_ratio # None
  /\ gen.out.v.status = OK
  /\ ErrorMessages = {JString("Request error simulated")}

\* C18: for every configuration Config::parse_yaml accepts and every request
\* the memoized function returns a response and never panics; a failure of
\* the synthesis is the 500 reply "unable to generate response".
C18_AcceptedConfigNeverPanics ==
  (gen.phase = "done" /\ gen.in.cfg \in DOMAIN ConfigFiles /\ IsOk(Parsed[gen.in.cfg])) =>
    /\ gen.out.ok # "panic"
    /\ IsOk(gen.out)
    /\ gen.out.v.status = INTERNAL_SERVER_ERROR =>
         gen.out.v.bytes = TextBytes("unable to generate response")

(***************************************************************************)
(* Properties of the latency generator (SpecLatency).                      *)
(***************************************************************************)
SawOnly(cfg) ==
  cfg.saw # NoShape /\ cfg.sine = NoShape /\ cfg.square = NoShape /\ cfg.triangle = NoShape

\* C10: with only a saw shape {amplitude A, period P} configured, the saw
\* contribution to the latency generated at elapsed time t is a linear ramp:
\* 0 at t mod P = 0, A/2 at t mod P = P/2, A-1 at t mod P = P-1 for the
\* tested A = 20 and P = 10000, always within [0, A), so the latency is
\* never below the base
C10_SawIsLinearRampAboveBase ==
  (lat.latency.ok # "none" /\ SawOnly(LatencyConfigs[lat.cfg])) =>
    LET cfg == LatencyConfigs[lat.cfg]
        A == cfg.saw[1].amplitude
        P == cfg.saw[1].period
        t == lat.now % P
        contribution == lat.latency.v - cfg.base
    IN  /\ IsOk(lat.latency)
        /\ contribution \in 0..(A - 1)
        /\ t = 0 => contribution = 0
        /\ 2 * t = P => contribution = A \div 2
        /\ (t = P - 1 /\ A = 20 /\ P = 10000) => contribution = A - 1
        /\ ~U64Less(lat.latency.v, cfg.base)

TriangleOnly(cfg) ==
  cfg.triangle # NoShape /\ cfg.saw = NoShape /\ cfg.sine = NoShape /\ cfg.square = NoShape

\* C11: with only a triangle shape {amplitude A, period P} configured, the
\* triangle contribution to the latency generated at elapsed time t is
\* defined for every t, lies in [0, A], and is 0 at t mod P = 0, A/2 at P/4,
\* A at P/2 and A/2 at 3P/4
C11_TriangleIsSymmetricWave ==
  (lat.latency.ok # "none" /\ TriangleOnly(LatencyConfigs[lat.cfg])) =>
    LET cfg == LatencyConfigs[lat.cfg]
        A == cfg.triangle[1].amplitude
        P == cfg.triangle[1].period
        t == lat.now % P
        contribution == lat.latency.v - cfg.base
    IN  /\ IsOk(lat.latency)
        /\ contribution \in 0..A
        /\ t = 0 => contribution = 0
        /\ 4 * t = P => contribution = A \div 2
        /\ 2 * t = P => contribution = A
        /\ 4 * t = 3 * P => contribution = A \div 2

(***************************************************************************)
(* The server's caches and its schema under hot reload (Spec).             *)
(***************************************************************************)
\* the response a handler is about to send, when it is one the cache
\* fingerprint speaks of: a GraphQL request's response other than a
\* simulated HTTP error
Answering(h) ==
  /\ handlers[h].pc = "respond"
  /\ handlers[h].hash # NoHash
  /\ ~SimulatedHttpError(handlers[h].reply)

\* C1: with response caching on, every response for a fingerprint that is
\* not a simulated HTTP error has the body of the first such response sent
\* for that fingerprint, however the requests interleave
C1_CachedResponsesAreIdentical ==
  config.cache_responses =>
    \A h \in Handlers :
       Answering(h) /\ handlers[h].hash \in DOMAIN sent
         => handlers[h].reply.bytes = sent[handlers[h].hash]

\* C3: the installed schema is always one that was read, parsed, patched and
\* validated; while the last reload attempt is a failed one the installed
\* schema is the one from before the attempt; and a request being answered
\* reads the schema that is installed, so a request accepted after a failed
\* reload is answered against the schema from before it
C3_FailedReloadKeepsSchema ==
  /\ IsOk(Loaded[state_schema])
  /\ watcher.attempt = "failed" => state_schema = watcher.prior
  /\ \A h \in readers : handlers[h].hash[3] = state_schema

\* a reload has failed on a file that differs from the installed schema, and
\* a request accepted after it is answered with data from the prior schema
C3_Witness ==
  \E h \in Handlers :
     /\ Answering(h)
     /\ handlers[h].reload = "failed"
     /\ watcher.attempt = "failed"
     /\ disk # state_schema
     /\ handlers[h].hash[3] = watcher.prior
     /\ handlers[h].reply.status = OK

\* the handler left handle through the HTTP-error trial: a GraphQL request
\* (it has a fingerprint) answered without any header, not even Content-Type
HitByHttpErrorTrial(h) ==
  /\ handlers[h].pc \in {"respond", "sleep"}
  /\ handlers[h].hash # NoHash
  /\ handlers[h].headers = EmptyMap

\* C13: every request that handle parses as a GraphQL request goes through
\* the http_error_ratio trial after its fingerprint is computed and before
\* any cache lookup or synthesis: a request is past the trial only under a
\* ratio that can miss, and one the trial hit has a fingerprint, an empty
\* body and a status from 500 to 504, holds no schema guard and leaves both
\* caches as they were; a response with an empty body and a 5xx status is
\* never in the cache, and comes from the trial alone
C13_HttpErrorTrialBypassesCaches ==
  /\ [](\A h \in Handlers :
          LET ratio == response_generation_for(
                         config, subgraph_name(handlers[h].req.path)).http_error_ratio
          IN  /\ handlers[h].pc \in {"lookup", "compute", "store"} =>
                   ratio = None \/ ratio[1] < ratio[2]
              /\ HitByHttpErrorTrial(h) =>
                   /\ ratio # None /\ ratio[1] > 0
                   /\ handlers[h].reply.bytes = EmptyBytes
                   /\ handlers[h].reply.status \in {500, 501, 502, 503, 504}
                   /\ h \notin readers
              /\ (handlers[h].pc \in {"respond", "sleep"}
                  /\ SimulatedHttpError(handlers[h].reply)) => HitByHttpErrorTrial(h))
  /\ [](\A hash \in DOMAIN resp_cache : ~SimulatedHttpError(resp_cache[hash]))
  /\ [][\A h \in Handlers :
          (handlers[h].pc = "idle" /\ HitByHttpErrorTrial(h)')
            => resp_cache' = resp_cache /\ doc_cache' = doc_cache /\ readers' = readers]_vars

\* a request whose fingerprint has a cached response (and a cached document)
\* was hit by the trial all the same: it is answered with the empty 5xx
\* while the cache still holds the response
C13_Witness ==
  \E h \in Handlers :
     /\ HitByHttpErrorTrial(h)
     /\ handlers[h].pc = "sleep"
     /\ handlers[h].hash \in DOMAIN resp_cache
     /\ handlers[h].hash \in doc_cache
     /\ resp_cache[handlers[h].hash].status = OK
     /\ SimulatedHttpError(handlers[h].reply)

(***************************************************************************)
(* Subgraph overrides, read back against the configuration file itself.    *)
(***************************************************************************)
\* a server file without its overrides, and its overrides
BaseYaml(file) == Without(ConfigFiles[file], "subgraph_overrides")
OverrideYaml(file) ==
  IF Has(ConfigFiles[file], "subgraph_overrides")
  THEN ConfigFiles[file].m["subgraph_overrides"].m
  ELSE EmptyMap

\* the settings each server file gives a route: under a name it has an
\* override for, the override merged onto the base; under "/", the base
ExpectedParts ==
  Tabulated(
    [file \in ServerConfigFiles |->
       Tabulated(
         [route \in DOMAIN OverrideYaml(file) \cup {"/"} |->
            IF route = "/" THEN base_parts(BaseYaml(file)).v
            ELSE base_parts(merge_yaml(OverrideYaml(file)[route], BaseYaml(file))).v])])

\* the file the running Config was parsed from
ConfigFile == CHOOSE file \in ServerConfigFiles : Parsed[file].v.cfg = config

ExpectedFor(path) ==
  LET routes == ExpectedParts[ConfigFile] IN
  IF path # <<>> /\ path[1] \in DOMAIN routes THEN routes[path[1]] ELSE routes["/"]

\* a GraphQL request on a POST route whose response is complete
Served(h) ==
  /\ handlers[h].pc = "sleep"
  /\ handlers[h].hash # NoHash
  /\ ~HitByHttpErrorTrial(h)

\* each of the four settings a request uses is the one the file gives its route
SettingsResolved ==
  \A h \in Handlers :
     LET expected == ExpectedFor(handlers[h].req.path) IN
     /\ handlers[h].hash # NoHash =>
          handlers[h].hash[2] = expected.response_generation
     /\ handlers[h].pc \in {"lookup", "store"} => expected.cache_responses
     /\ Served(h) =>
          /\ \A header \in DOMAIN handlers[h].headers \ {"content-type"} :
                /\ header \in DOMAIN expected.headers
                /\ handlers[h].headers[header] = expected.headers[header]
          /\ \A header \in DOMAIN expected.headers :
                header \in DOMAIN expected.response_generation.header_ratio
                \/ header \in DOMAIN handlers[h].headers
          /\ handlers[h].latency \in
               LatencyGenerator_generate(expected.latency_generator, lat.now, lat.build)

\* a request whose route has caching off never passes through the cache
UncachedRoutesSkipCache ==
  [][\A h \in Handlers :
       (handlers[h].pc = "idle" /\ handlers'[h].pc \in {"lookup", "compute"}) =>
         (handlers'[h].pc = "lookup") = ExpectedFor(handlers'[h].req.path).cache_responses]_vars

\* the settings a configuration has, by their place in the file
SettingPaths ==
  {<<"cache_responses">>}
  \cup {<<"headers", header>> : header \in {"test-header", "extra"}}
  \cup {<<"latency", field>> : field \in {"base", "saw", "sine", "square", "triangle"}}
  \cup {<<"response_generation", field>> :
          field \in {"array", "null_ratio", "http_error_ratio", "header_ratio"}}
  \cup {<<"response_generation", "scalars", scalar>> :
          scalar \in {"Boolean", "Int", "ID", "Float", "String"}}
  \cup {<<"response_generation", "graphql_errors", field>> :
          field \in {"request_error_ratio", "field_error_ratio"}}

\* the file writes the setting
RECURSIVE Sets(_, _)
Sets(yaml, path) ==
  IF path = <<>> THEN TRUE
  ELSE Has(yaml, Head(path)) /\ Sets(yaml.m[Head(path)], Tail(path))

\* the setting's value in parsed parts
ValueAt(parts, path) ==
  CASE path[1] = "cache_responses" -> parts.cache_responses
    [] path[1] = "headers" ->
         IF path[2] \in DOMAIN parts.headers THEN <<parts.headers[path[2]]>> ELSE <<>>
    [] path[1] = "latency" -> parts.latency_generator[path[2]]
    [] path[2] = "scalars" -> parts.response_generation.scalars[path[3]]
    [] path[2] = "graphql_errors" -> parts.response_generation.graphql_errors[path[3]]
    [] OTHER -> parts.response_generation[path[2]]

\* the parts a Config holds for its base and for an override
BaseParts(cfg) ==
  [cache_responses |-> cfg.cache_responses,
   headers |-> cfg.headers,
   latency_generator |-> cfg.latency_generator,
   response_generation |-> cfg.response_generation]
OverrideParts(cfg, name) ==
  [cache_responses |-> cfg.subgraph_overrides.cache_responses[name],
   headers |-> cfg.subgraph_overrides.headers[name],
   latency_generator |-> cfg.subgraph_overrides.latency_generator[name],
   response_generation |-> cfg.subgraph_overrides.response_generation[name]]

\* per server file: every override has the base's value for every setting
\* it does not itself set
InheritsBase ==
  Tabulated(
    [file \in ServerConfigFiles |->
       \A name \in DOMAIN OverrideYaml(file) :
          \A path \in SettingPaths :
             ~Sets(OverrideYaml(file)[name], path) =>
               ValueAt(OverrideParts(Parsed[file].v.cfg, name), path)
                 = ValueAt(BaseParts(Parsed[file].v.cfg), path)])

\* per server file: every override has the base's value for every setting
\* the base file writes and the override does not
InheritsWritten ==
  Tabulated(
    [file \in ServerConfigFiles |->
       \A name \in DOMAIN OverrideYaml(file) :
          \A path \in SettingPaths :
             (~Sets(OverrideYaml(file)[name], path) /\ Sets(BaseYaml(file), path)) =>
               ValueAt(OverrideParts(Parsed[file].v.cfg, name), path)
                 = ValueAt(BaseParts(Parsed[file].v.cfg), path)])

\* C12 as stated: each of the four settings of a request to POST /<name> is
\* the override's when the configuration has an override for the name and
\* the base's otherwise, POST / uses the base for all four, and an override
\* has the base's value for every setting it does not itself set
C12_OverridesResolveAndInheritBase ==
  /\ []SettingsResolved
  /\ UncachedRoutesSkipCache
  /\ []InheritsBase[ConfigFile]

\* C12, amended: the settings resolve as stated, and an override has the
\* base's value for every setting the base file writes and the override
\* does not; a setting the base file leaves out is defaulted anew after the
\* merge, within what the override wrote of its block
C12_OverridesResolveAndInheritWritten ==
  /\ []SettingsResolved
  /\ UncachedRoutesSkipCache
  /\ []InheritsWritten[ConfigFile]

\* a request to the route of the override that sets all four settings is
\* served with each of them: the overridden header, the overridden ID
\* generator (inheriting the base's Int generator), no caching, the 1 ms
\* latency; while the base keeps its own
C12_Witness ==
  \E h \in Handlers :
     /\ Served(h)
     /\ handlers[h].req.path = <<"special">>
     /\ handlers[h].headers["test-header"] = "test-header-overridden-value"
     /\ config.headers["test-header"] = "test-header-normal-value"
     /\ handlers[h].hash[2] # config.response_generation
     /\ handlers[h].hash[2].scalars["Int"] = config.response_generation.scalars["Int"]
     /\ handlers[h].hash \notin DOMAIN resp_cache
     /\ config.cache_responses
     /\ handlers[h].latency = Ok(1)
     /\ handlers[h].latency \notin
          LatencyGenerator_generate(config.latency_generator, lat.now, lat.build)

\* the handler's request is routed to a subgraph with a response-generation
\* override
Overridden(h) ==
  /\ handlers[h].hash # NoHash
  /\ handlers[h].req.path # <<>>
  /\ handlers[h].req.path[1] \in DOMAIN config.subgraph_overrides.response_generation

\* C19: two requests with the same query under the same schema, routed to
\* two different overridden subgraphs whose response-generation configs are
\* equal, have different fingerprints (and so share no cache entry)
C19_SubgraphNameInFingerprint ==
  \A h1, h2 \in Handlers :
     (/\ Overridden(h1) /\ Overridden(h2)
      /\ handlers[h1].req.path[1] # handlers[h2].req.path[1]
      /\ handlers[h1].req.query = handlers[h2].req.query
      /\ handlers[h1].hash[3] = handlers[h2].hash[3]
      /\ response_generation_for(config, subgraph_name(handlers[h1].req.path))
           = response_generation_for(config, subgraph_name(handlers[h2].req.path)))
     => handlers[h1].hash # handlers[h2].hash

\* C17: every request whose operation selects only introspection
\* meta-fields at the root is answered with the introspection result for
\* the schema it read and for the variables it carries itself, and with
\* nothing else, also with response caching on
C17_IntrospectionIsFaithful ==
  \A h \in Handlers :
     LET req == handlers[h].req
         file == handlers[h].hash[3]
         parsed == ServerDocuments[req.query, file]
     IN  (/\ handlers[h].pc \in {"respond", "sleep"}
          /\ handlers[h].hash # NoHash
          /\ ~HitByHttpErrorTrial(h)
          /\ IsOk(parsed)
          /\ is_introspection(parsed.v)
          /\ IsOk(coerce_variable_values(parsed.v, req.variables)))
         => /\ handlers[h].reply.status = OK
            /\ handlers[h].reply.bytes =
                 JsonBytes(partial_execute(InstalledSchema(file).valid, parsed.v,
                                           req.variables))

\* C20 as stated: every successful reload changes the schema identity that
\* enters the fingerprint, for any sequence of reloads: the installed
\* schema never has the identity of one that a reload has replaced
C20_EveryReloadChangesIdentity ==
  SourceHash(state_schema) \notin watcher.past

\* C20, amended: the schema identity in the fingerprint is the hash of the
\* schema's source text.  A request's fingerprint carries the text of the
\* schema it acquired, every cached response was computed against the text
\* in its key and every cached document parsed against it, so an entry
\* cached under one schema text is never served to a request that acquired
\* a schema of another text; a reload that installs a different text changes
\* the identity, one that installs an earlier text returns to its identity
C20_CacheEntriesFollowSchemaText ==
  /\ [](\A h \in readers : handlers[h].hash[3] = SourceHash(state_schema))
  /\ [](\A hash \in DOMAIN resp_cache :
          \E variables \in ServerVariables :
             Ok(resp_cache[hash]) \in ServerReplies[hash[2], hash[1], variables, hash[3]])
  /\ [](\A hash \in doc_cache : IsOk(ServerDocuments[hash[1], hash[3]]))
  /\ [](\A h \in Handlers :
          (handlers[h].pc = "lookup" /\ handlers[h].hash \in DOMAIN resp_cache) =>
            \E variables \in ServerVariables :
               Ok(resp_cache[handlers[h].hash]) \in
                 ServerReplies[handlers[h].hash[2], handlers[h].req.query, variables,
                               state_schema])
  /\ [][(watcher.pc = "writing" /\ watcher'.pc = "idle") =>
          (SourceHash(state_schema') = SourceHash(state_schema))
            = (watcher.parsed = state_schema)]_vars

\* a response was cached under the schema the server started with, a reload
\* has installed another text, and a request with the same query and config
\* that acquired the new schema missed the cache
C20_Witness ==
  \E h \in Handlers :
     /\ handlers[h].pc = "compute"
     /\ cache_responses_for(config, subgraph_name(handlers[h].req.path))
     /\ watcher.attempt = "installed"
     /\ watcher.past # {}
     /\ handlers[h].hash[3] = SourceHash(state_schema)
     /\ \E old \in watcher.past :
          /\ old # handlers[h].hash[3]
          /\ <<handlers[h].hash[1], handlers[h].hash[2], old>> \in DOMAIN resp_cache
          /\ <<handlers[h].hash[1], handlers[h].hash[2], old>> \in doc_cache

\* C21: the value stored for a fingerprint is written once: a second write
\* for the fingerprint is discarded, so the value under a fingerprint stays
\* the first one stored under it, and a fingerprint is never dropped
C21_CacheValuesWrittenOnce ==
  [][/\ \A hash \in DOMAIN resp_cache :
          hash \in DOMAIN resp_cache' /\ resp_cache'[hash] = resp_cache[hash]
     /\ doc_cache \subseteq doc_cache']_vars

\* C22: a handler computes its fingerprint and looks up or synthesizes its
\* response against one schema, the one installed when it acquired the read
\* guard: while it holds the guard that schema stays installed and is a
\* whole, validated one, its fingerprint never changes, and the reply it
\* ends with is one that synthesis against that schema yields; the
\* watcher's steps leave every handler as it is, and a schema is installed
\* only when no handler holds a guard
C22_RequestKeepsItsSchema ==
  /\ [](/\ IsOk(Loaded[state_schema])
        /\ \A h \in readers :
              /\ handlers[h].pc \in {"lookup", "compute", "store"}
              /\ handlers[h].hash[3] = SourceHash(state_schema))
  /\ [](\A h \in Handlers :
          (handlers[h].pc \in {"store", "respond", "sleep"}
           /\ handlers[h].hash # NoHash /\ ~HitByHttpErrorTrial(h)) =>
            \E variables \in ServerVariables :
               Ok(handlers[h].reply) \in
                 ServerReplies[handlers[h].hash[2], handlers[h].req.query, variables,
                               handlers[h].hash[3]])
  /\ [][/\ \A h \in Handlers :
             (handlers[h].pc # "idle" /\ handlers'[h].pc # "idle") =>
               handlers'[h].hash = handlers[h].hash /\ handlers'[h].req = handlers[h].req
        /\ (watcher' # watcher \/ state_schema' # state_schema) => handlers' = handlers
        /\ state_schema' # state_schema => readers = {}]_vars

\* a handler that has synthesized against the schema it acquired still holds
\* its guard while the watcher, having parsed another schema, waits to write
C22_Witness ==
  \E h \in readers :
     /\ handlers[h].pc = "store"
     /\ handlers[h].reply.status = OK
     /\ watcher.pc = "writing"
     /\ watcher.parsed # state_schema
     /\ handlers[h].hash[3] = SourceHash(state_schema)

\* C23: the handler sleeps for the generated latency only when the response
\* is a 2xx one; with any other status it returns without the sleep
C23_SleepOnlyOn2xx ==
  \A h \in Handlers :
     handlers[h].pc = "sleep" => handlers[h].reply.status \in 200..299

(***************************************************************************)
(* Routes with caching off.                                                *)
(***************************************************************************)
\* a GraphQL request on a route the file gives cache_responses: false
OnUncachedRoute(handler) ==
  /\ handler.hash # NoHash
  /\ ~ExpectedFor(handler.req.path).cache_responses

\* C24: a request whose effective cache_responses is off is never at the
\* lookup or the store of the response cache; each of its steps leaves the
\* response cache as it was; and its response, unless the HTTP-error trial
\* answered, comes straight from a synthesis under its own settings, whether
\* or not the cache holds an entry for its fingerprint
C24_UncachedRouteLeavesResponseCacheAlone ==
  /\ [](\A h \in Handlers :
          OnUncachedRoute(handlers[h]) => handlers[h].pc \notin {"lookup", "store"})
  /\ [][\A h \in Handlers :
          (handlers'[h] # handlers[h]
           /\ (OnUncachedRoute(handlers[h]) \/ OnUncachedRoute(handlers'[h]))) =>
            /\ resp_cache' = resp_cache
            /\ (handlers'[h].pc = "respond" /\ ~SimulatedHttpError(handlers'[h].reply)) =>
                 /\ handlers[h].pc = "compute"
                 /\ Ok(handlers'[h].reply) \in
                      ServerReplies[ExpectedFor(handlers[h].req.path).response_generation,
                                    handlers[h].req.query, handlers[h].req.variables,
                                    state_schema]]_vars

\* an uncached request has its response, the cache holds an entry for its
\* fingerprint, written through the route that caches, and the two differ
C24_Witness ==
  \E h \in Handlers :
     /\ OnUncachedRoute(handlers[h])
     /\ handlers[h].pc = "respond"
     /\ handlers[h].req.path = <<>>
     /\ handlers[h].hash \in DOMAIN resp_cache
     /\ handlers[h].hash \in DOMAIN sent
     /\ resp_cache[handlers[h].hash].status = OK
     /\ handlers[h].reply.status = OK
     /\ handlers[h].reply # resp_cache[handlers[h].hash]

(***************************************************************************)
(* What parse_yaml lets through.                                           *)
(***************************************************************************)
ProperRatio(ratio) == ratio[2] > 0 /\ ratio[1] <= ratio[2]

WellFormedGeneration(rgen_cfg) ==
  /\ \A opt \in {rgen_cfg.null_ratio, rgen_cfg.http_error_ratio,
                 rgen_cfg.graphql_errors.request_error_ratio,
                 rgen_cfg.graphql_errors.field_error_ratio} :
        opt # None => ProperRatio(opt)
  /\ \A header \in DOMAIN rgen_cfg.header_ratio : ProperRatio(rgen_cfg.header_ratio[header])
  /\ rgen_cfg.array.min_length <= rgen_cfg.array.max_length

\* the files parse_yaml returns a Config for
AcceptedFiles == {file \in DOMAIN ConfigFiles : IsOk(Parsed[file])}

\* C25: every response-generation config parse_yaml returns, the base and
\* each override, has ratios with denominator > 0 and numerator <= denominator
\* and an array range with min_length <= max_length; a file that breaks one
\* of these yields no Config
C25_ParsedGenerationIsWellFormed ==
  (gen.phase \in {"input", "done"} /\ gen.in.cfg \in AcceptedFiles) =>
    LET cfg == Parsed[gen.in.cfg].v.cfg IN
    /\ WellFormedGeneration(cfg.response_generation)
    /\ \A name \in DOMAIN cfg.subgraph_overrides.response_generation :
          WellFormedGeneration(cfg.subgraph_overrides.response_generation[name])

(***************************************************************************)
(* merge_yaml, read back against the two values it was given.  The values  *)
(* drawn nest mappings two deep, so the expectation is written out level   *)
(* by level.                                                               *)
(***************************************************************************)
BothMappings(o, b) == o.y = "map" /\ b.y = "map"

\* the key-wise merge of two mappings, Inner merging the values of a key
\* that both have
KeyWise(o, b, Inner(_, _)) ==
  YMap([key \in DOMAIN o.m \cup DOMAIN b.m |->
          IF key \in DOMAIN o.m /\ key \in DOMAIN b.m THEN Inner(o.m[key], b.m[key])
          ELSE IF key \in DOMAIN o.m THEN o.m[key]
          ELSE b.m[key]])

Replacing(o, b) == o
MergedFlat(o, b) == IF BothMappings(o, b) THEN KeyWise(o, b, Replacing) ELSE o
MergedNested(o, b) == IF BothMappings(o, b) THEN KeyWise(o, b, MergedFlat) ELSE o

MergeIsKeyWiseOrReplaces ==
  gen.phase # "yaml" =>
    /\ gen.base = MergedNested(gen.overrides, gen.original)
    /\ BothMappings(gen.overrides, gen.original) =>
         /\ gen.base.y = "map"
         /\ DOMAIN gen.base.m = DOMAIN gen.overrides.m \cup DOMAIN gen.original.m
         /\ \A key \in DOMAIN gen.original.m \ DOMAIN gen.overrides.m :
               gen.base.m[key] = gen.original.m[key]
         /\ \A key \in DOMAIN gen.overrides.m \ DOMAIN gen.original.m :
               gen.base.m[key] = gen.overrides.m[key]
         /\ \A key \in DOMAIN gen.overrides.m \cap DOMAIN gen.original.m :
               gen.overrides.m[key].y = "seq" => gen.base.m[key] = gen.overrides.m[key]
    /\ ~BothMappings(gen.overrides, gen.original) => gen.base = gen.overrides

\* C26 as stated: besides the key-wise merge and the replacement, merging an
\* empty mapping leaves the base unchanged, whatever the base is
C26_EmptyOverrideKeepsAnyBase ==
  /\ MergeIsKeyWiseOrReplaces
  /\ (gen.phase # "yaml" /\ gen.overrides = YEmpty) => gen.base = gen.original

\* C26: merge_yaml of two mappings is their key-wise recursive merge over
\* the union of their keys, and of any other pair the override, whole;
\* merging the same override a second time changes nothing; and merging an
\* empty mapping leaves a base that is a mapping unchanged, while a base
\* that is not a mapping is replaced by the empty mapping
C26_MergeIsKeyWiseAndIdempotent ==
  /\ MergeIsKeyWiseOrReplaces
  /\ (gen.phase # "yaml" /\ gen.overrides = YEmpty) =>
       gen.base = IF gen.original.y = "map" THEN gen.original ELSE YEmpty

\* two mappings sharing a key under which both hold mappings, and sharing a
\* key under which the override holds an array, merged twice
C26_Witness ==
  /\ gen.phase = "merged twice"
  /\ BothMappings(gen.overrides, gen.original)
  /\ gen.overrides.m # gen.original.m
  /\ DOMAIN gen.overrides.m = YamlKeys /\ DOMAIN gen.original.m = YamlKeys
  /\ BothMappings(gen.overrides.m["a"], gen.original.m["a"])
  /\ DOMAIN gen.overrides.m["a"].m = {"a"} /\ DOMAIN gen.original.m["a"].m = {"b"}
  /\ gen.overrides.m["b"] = YSeq(<<1>>) /\ gen.original.m["b"] = YSeq(<<2>>)
  /\ gen.base \notin {gen.overrides, gen.original}

(***************************************************************************)
(* patch_ast, read back against the document it was given.                 *)
(***************************************************************************)
\* the files that parse, and what patch_ast makes of each
ParsedFiles == {f : f \in {g \in DOMAIN SchemaFiles : SchemaFiles[g].syntax_ok}}
PatchedAst == Tabulated([file \in ParsedFiles |-> patch_ast(SchemaFiles[file].defs)])

NamesJoinGraph(defs) ==
  \E i \in DOMAIN defs :
     defs[i].kind \notin {"schema", "schema_extension"} /\ defs[i].name = "join__Graph"
SomeExtensionLinks(defs) ==
  \E i \in DOMAIN defs :
     /\ defs[i].kind = "schema_extension"
     /\ \E j \in DOMAIN defs[i].directives : defs[i].directives[j].name = "link"
HasSchemaDefinition(defs) == \E i \in DOMAIN defs : defs[i].kind = "schema"

\* C27: patch_ast says Supergraph exactly when a definition is named
\* join__Graph, otherwise Subgraph exactly when a schema extension of the
\* document carries @link, otherwise None; for Subgraph alone it appends
\* schema { query: Query } when there is no schema definition and then the
\* 16 federation directive definitions, and it leaves the definitions of a
\* Supergraph or None document as they were
C27_ClassifiedByJoinGraphThenLink ==
  (gen.phase = "loaded" /\ gen.in.file \in ParsedFiles) =>
    LET defs == SchemaFiles[gen.in.file].defs
        patched == PatchedAst[gen.in.file]
        flavour == IF NamesJoinGraph(defs) THEN "Supergraph"
                   ELSE IF SomeExtensionLinks(defs) THEN "Subgraph"
                   ELSE "None"
    IN  /\ patched.fed_type = flavour
        /\ Len(federation_directives) = 16
        /\ patched.ast =
             IF flavour = "Subgraph"
             THEN defs
                  \o (IF HasSchemaDefinition(defs) THEN <<>>
                      ELSE <<SchemaDefinition("Query", <<>>)>>)
                  \o federation_directives
             ELSE defs

(***************************************************************************)
(* The _Entity union, read back against the schema file.                   *)
(***************************************************************************)
LoadedSchema == gen.out.v.valid
SourceDefs == SchemaFiles[gen.in.file].defs

\* the object types of the file, the query root aside, with a @key or a
\* @join__type that does not say resolvable: false
EntityNames ==
  {def.name : def \in
     {d \in Range(SourceDefs) :
        /\ d.kind = "object"
        /\ d.name # LoadedSchema.query
        /\ \E i \in DOMAIN d.directives :
              /\ d.directives[i].name \in {"key", "join__type"}
              /\ d.directives[i].resolvable \in {"absent", "true"}}}

\* C28: the members of the injected _Entity union are exactly the object
\* types, other than the query root, with at least one @key or @join__type
\* whose resolvable is absent or true; a type whose every such directive says
\* resolvable: false, an interface, a union or any other type is no member
C28_EntityMembersAreResolvableKeyedObjects ==
  (gen.phase = "loaded" /\ IsOk(gen.out)) =>
    /\ HasName(LoadedSchema.types, "_Entity") <=> EntityNames # {}
    /\ HasName(LoadedSchema.types, "_Entity") =>
         /\ GetByName(LoadedSchema.types, "_Entity").kind = "union"
         /\ Range(GetByName(LoadedSchema.types, "_Entity").members) = EntityNames

\* the file with every way of carrying @key is loaded: two of its five
\* keyed types are members
C28_Witness ==
  /\ gen.phase = "loaded" /\ IsOk(gen.out)
  /\ gen.in.file = "entities"
  /\ GetByName(LoadedSchema.types, "_Entity").members = <<"User", "Article">>
  /\ LoadedSchema.query = "Query"

(***************************************************************************)
(* _Entity, _entities and _Any in a loaded schema.                         *)
(***************************************************************************)
Flavour == PatchedAst[gen.in.file].fed_type
HasEntityUnion ==
  /\ HasName(LoadedSchema.types, "_Entity")
  /\ GetByName(LoadedSchema.types, "_Entity").kind = "union"
QueryRootFields == GetByName(LoadedSchema.types, LoadedSchema.query).fields
HasEntitiesField ==
  /\ HasName(QueryRootFields, "_entities")
  /\ GetByName(QueryRootFields, "_entities").ty = NonNullList("_Entity")
HasAnyScalar ==
  /\ HasName(LoadedSchema.types, "_Any")
  /\ GetByName(LoadedSchema.types, "_Any").kind = "scalar"

EntitiesFieldFollowsUnion ==
  /\ HasName(QueryRootFields, "_entities") <=> HasName(LoadedSchema.types, "_Entity")
  /\ HasName(QueryRootFields, "_entities") => HasEntitiesField /\ HasAnyScalar

\* C29 as stated: every loaded Supergraph or Subgraph schema has the _Entity
\* union and the _entities field on its query root; in a loaded schema of any
\* flavour the field is there exactly when the union is, and then _Any is
C29_FederatedSchemaHasEntityUnion ==
  (gen.phase = "loaded" /\ IsOk(gen.out)) =>
    /\ Flavour \in {"Supergraph", "Subgraph"} => HasEntityUnion /\ HasEntitiesField
    /\ EntitiesFieldFollowsUnion

\* C29: a loaded schema of any flavour has the _Entity union exactly when
\* one of its object types is a federated entity, and the field
\* _entities: [_Entity]! on its query root exactly when it has the union, and
\* then the scalar _Any is defined; a loaded Supergraph or Subgraph schema
\* defines _Any whether or not it has entities
C29_EntityUnionOnlyWithEntities ==
  (gen.phase = "loaded" /\ IsOk(gen.out)) =>
    /\ HasEntityUnion <=> EntityNames # {}
    /\ EntitiesFieldFollowsUnion
    /\ Flavour \in {"Supergraph", "Subgraph"} => HasAnyScalar

\* a subgraph without entities is loaded: no union, no field, _Any all the same
C29_Witness ==
  /\ gen.phase = "loaded" /\ IsOk(gen.out)
  /\ Flavour = "Subgraph"
  /\ EntityNames = {}
  /\ ~HasName(LoadedSchema.types, "_Entity")
  /\ ~HasName(QueryRootFields, "_entities")
  /\ HasName(QueryRootFields, "_service")
  /\ HasAnyScalar

(***************************************************************************)
(* Progress of the handlers and of the watcher.                            *)
(***************************************************************************)
\* C30: under fair scheduling every started handler is idle again later
\* on, and it leaves only by sending its response after the latency sleep;
\* a reload that parsed a valid schema file does not wait for the write lock
\* for ever, and it leaves the wait only by installing the schema it parsed,
\* with requests in flight or asleep; and a request is accepted only while
\* no write is pending, against the schema installed at that moment
C30_HandlersAndReloadsFinish ==
  /\ \A h \in Handlers : []<>(handlers[h].pc = "idle")
  /\ []<>(watcher.pc # "writing")
  /\ [][/\ \A h \in Handlers :
            /\ (handlers[h].pc # "idle" /\ handlers'[h].pc = "idle") =>
                 handlers[h].pc = "sleep"
            /\ (handlers[h].pc = "idle" /\ handlers'[h].hash # NoHash) =>
                 /\ watcher.pc # "writing"
                 /\ handlers'[h].hash[3] = SourceHash(state_schema)
        /\ (watcher.pc = "writing" /\ watcher'.pc # "writing") =>
             /\ watcher'.attempt = "installed"
             /\ state_schema' = watcher.parsed
             /\ IsOk(Loaded[state_schema'])]_vars

\* a reload has installed the edited schema while one request, accepted
\* before it, is in its latency sleep with a response from the schema it
\* replaced, and a request accepted after it is reading the new one
C30_Witness ==
  /\ watcher.attempt = "installed"
  /\ state_schema = "edited"
  /\ \E h, later \in Handlers :
        /\ handlers[h].pc = "sleep"
        /\ handlers[h].hash # NoHash
        /\ handlers[h].hash[3] = SourceHash("plain")
        /\ handlers[later].pc \in {"lookup", "compute", "store"}
        /\ handlers[later].hash[3] = SourceHash("edited")
        /\ later \in readers

====
